---- MODULE Spec2Model ----
(***************************************************************************)
(* A model of the rslox interpreter: the stack-based virtual machine with  *)
(* its call frames, globals table, intrusive object list and raw-pointer   *)
(* heap objects (src/src/vm, src/src/value), driven by the REPL host       *)
(* (src/src/cli.rs), and the compiler's resolution of local variables      *)
(* (src/src/compiler/variables.rs, scope.rs).                              *)
(***************************************************************************)
EXTENDS Integers, Sequences, FiniteSets, TLC

VARIABLES
    stack,        \* VM::stack, the value stack (index 1 here is index 0 in the code)
    frames,       \* VM::frames, the call frames, innermost last
    objects,      \* VM::objects, the intrusive list of tracked objects, head first
    heap,         \* every Box<Object> ever allocated, with the number of times it was freed
    globals,      \* VM::globals, name -> value
    status,       \* where the host is: idle, running, ok, error, crashed, panic
    err,          \* the message of the last runtime error raised
    inputs,       \* the number of inputs the REPL has read
    source,       \* the input the REPL read last
    line,         \* repl's line buffer: the inputs read into it since it was cleared
    function_type, \* CompilerState::function_type: script or function, with its arity
    locals,       \* CompilerState::locals of the function being compiled
    scope_depth,  \* CompilerState::scope_depth
    emitted,      \* the instructions written to the chunk being compiled
    constants,    \* the constant pool of the chunk being compiled
    enclosing,    \* CompilationContext's states below the current one, innermost last
    previous,     \* Parser::previous, the token consumed last
    global,       \* var_declaration's global: the index of the name constant of the variable declared
    cstatus,      \* where the compiler is: declaration, initializer, semicolon, error
    cerr          \* the message of the compile error raised

vmvars == <<stack, frames, objects, heap, globals, status, err, inputs, source, line>>
cvars == <<function_type, locals, scope_depth, emitted, constants, enclosing, previous,
           global, cstatus, cerr>>
\* what no instruction of the VM changes
othervars ==
    <<inputs, source, line, function_type, locals, scope_depth, emitted, constants,
      enclosing, previous, global,
      cstatus, cerr>>
vars == <<stack, frames, objects, heap, globals, status, err, inputs, source,
          line, function_type, locals, scope_depth, emitted, constants, enclosing,
          previous, global, cstatus,
          cerr>>

-----------------------------------------------------------------------------
(* Bounds of the model *)

\* inputs the REPL reads in one session
MaxLines == 2
\* parameters of the called function in the call family
MaxArgs == 2
\* locals declared in the body of the called function in the call family
MaxLocals == 2
\* nesting of block scopes in the compiled source
MaxScopes == 2
\* locals in scope at once in the compiled source
MaxSlots == 3
\* instructions of the compiled source
MaxCode == 3
\* tokens of a compiled expression statement, before its ';'
MaxTokens == 5

-----------------------------------------------------------------------------
(* Program constants *)

FRAMES_MAX == 64
UINT8_COUNT == 256

OpReturn == 0
OpConstant == 1
OpNegate == 2
OpAdd == 3
OpSubtract == 4
OpMultiply == 5
OpDivide == 6
OpNil == 7
OpTrue == 8
OpFalse == 9
OpNot == 10
OpEqual == 11
OpGreater == 12
OpLess == 13
OpPrint == 14
OpPop == 15
OpDefineGlobal == 16
OpGetGlobal == 17
OpSetGlobal == 18
OpGetLocal == 19
OpSetLocal == 20
OpJumpIfFalse == 21
OpJump == 22
OpLoop == 23
OpCall == 24

-----------------------------------------------------------------------------
(* Values *)

Nil == [t |-> "nil"]
Bool(b) == [t |-> "bool", b |-> b]
Number(n) == [t |-> "num", n |-> n]
\* Literal::String: a string literal of the constant pool; s is its characters
LitString(s) == [t |-> "str", s |-> s]
\* Value::Obj: a raw pointer to a heap Object
Obj(p) == [t |-> "obj", p |-> p]
\* no binding in the globals table
Absent == [t |-> "absent"]

is_object(v) == v.t = "obj"
is_number(v) == v.t = "num"
is_nil(v) == v.t = "nil"
is_bool(v) == v.t = "bool"
is_falsey(v) == is_nil(v) \/ (is_bool(v) /\ ~v.b)

Range(s) == {s[i] : i \in DOMAIN s}

\* the part of a sequence before index i (1-based), and without its last element
Front(s) == SubSeq(s, 1, Len(s) - 1)

DigitChars == <<"0", "1", "2", "3", "4", "5", "6", "7", "8", "9">>

\* the decimal digits of a natural number, as format!("{n}") writes them
RECURSIVE Digits(_)
Digits(n) ==
    IF n < 10 THEN <<DigitChars[n + 1]>>
    ELSE Digits(n \div 10) \o <<DigitChars[(n % 10) + 1]>>

-----------------------------------------------------------------------------
(* The programs the REPL is given.  Each is the list of the functions the   *)
(* compiler produces for one input, the script first; a function is its     *)
(* arity, its name ("" for the script), its code bytes and its constant     *)
(* pool.  A constant [t |-> "fn", k |-> k] is the function value of the k-th *)
(* function of the same compilation.                                        *)

FnConst(k) == [t |-> "fn", k |-> k]

Function(arity, name, code, pool) ==
    [arity |-> arity, name |-> name, code |-> code, constants |-> pool]

\* n times the element x
Rep(n, x) == [i \in 1..n |-> x]

\* the operand bytes that follow an opcode in the code
OperandBytes(op) ==
    CASE op \in {OpConstant, OpDefineGlobal, OpGetGlobal, OpSetGlobal, OpGetLocal,
                 OpSetLocal, OpCall} -> 1
      [] op \in {OpJumpIfFalse, OpJump, OpLoop} -> 2
      [] OTHER -> 0

\* the offset of the instruction that follows the one at offset at
NextInstruction(code, at) ==
    IF at >= Len(code) THEN at ELSE at + 1 + OperandBytes(code[at + 1])

\* the offsets (from 0) of the opcodes of a chunk's code, decoded from offset at,
\* four instructions at a time
RECURSIVE InstructionsFrom(_, _)
InstructionsFrom(code, at) ==
    IF at >= Len(code) THEN {}
    ELSE LET second == NextInstruction(code, at)
             third == NextInstruction(code, second)
             fourth == NextInstruction(code, third)
         IN ({at, second, third, fourth} \cap (0..(Len(code) - 1)))
                \cup InstructionsFrom(code, NextInstruction(code, fourth))

InstructionStarts(code) == InstructionsFrom(code, 0)

\* Chunk::lines: write_chunk pushes a line with every byte of the code; the
\* entry of a byte is labelled here by the position of the byte, so that the
\* result of a lookup tells which entry was read
ChunkLines(code) == [i \in 1..Len(code) |-> i]

\* CONSTANT first; CONSTANT first+1; ... (n literals, each a new pool entry)
ConstantRun(first, n) ==
    [i \in 1..(2 * n) |->
        IF i % 2 = 1 THEN OpConstant ELSE first + (i \div 2) - 1]

\* fun f(p1..pn) { var l1 = 1; .. var lm = 1; return 7; }  f(1, .., 1);
CallProgram(n, m) ==
    << Function(0, "",
           <<OpConstant, 1, OpDefineGlobal, 0, OpGetGlobal, 2>>
               \o ConstantRun(3, n)
               \o <<OpCall, n, OpPop, OpNil, OpReturn>>,
           <<LitString(<<"f">>), FnConst(2), LitString(<<"f">>)>>
               \o Rep(n, Number(1))),
       Function(n, "f",
           ConstantRun(0, m) \o <<OpConstant, m, OpReturn, OpNil, OpReturn>>,
           Rep(m, Number(1)) \o <<Number(7)>>) >>

\* fun f() { f(); }  f();
RecurseProgram ==
    << Function(0, "",
           <<OpConstant, 1, OpDefineGlobal, 0, OpGetGlobal, 2, OpCall, 0,
             OpPop, OpNil, OpReturn>>,
           <<LitString(<<"f">>), FnConst(2), LitString(<<"f">>)>>),
       Function(0, "f",
           <<OpGetGlobal, 0, OpCall, 0, OpPop, OpNil, OpReturn>>,
           <<LitString(<<"f">>)>>) >>

\* fun g(a) {}  fun f(d) { if (d > FRAMES_MAX - 3) g(); f(d + 1); }  f(0);
\* g() is called with the wrong number of arguments while FRAMES_MAX frames
\* are active
DeepMismatchProgram ==
    << Function(0, "",
           <<OpConstant, 1, OpDefineGlobal, 0, OpConstant, 3, OpDefineGlobal, 2,
             OpGetGlobal, 4, OpConstant, 5, OpCall, 1, OpPop, OpNil, OpReturn>>,
           <<LitString(<<"g">>), FnConst(2), LitString(<<"f">>), FnConst(3),
             LitString(<<"f">>), Number(0)>>),
       Function(1, "g", <<OpNil, OpReturn>>, <<>>),
       Function(1, "f",
           <<OpGetLocal, 0, OpConstant, 0, OpGreater,
             OpJumpIfFalse, 0, 9, OpPop,
             OpGetGlobal, 1, OpCall, 0, OpPop,
             OpJump, 0, 1, OpPop,
             OpGetGlobal, 2, OpGetLocal, 0, OpConstant, 3, OpAdd, OpCall, 1,
             OpPop, OpNil, OpReturn>>,
           <<Number(FRAMES_MAX - 3), LitString(<<"g">>), LitString(<<"f">>),
             Number(1)>>) >>

\* fun f(a) {}  f(nil, .., nil);   with argc arguments
MismatchProgram(argc) ==
    << Function(0, "",
           <<OpConstant, 1, OpDefineGlobal, 0, OpGetGlobal, 2>>
               \o Rep(argc, OpNil)
               \o <<OpCall, argc, OpPop, OpNil, OpReturn>>,
           <<LitString(<<"f">>), FnConst(2), LitString(<<"f">>)>>),
       Function(1, "f", <<OpNil, OpReturn>>, <<>>) >>

\* var a = "x" + "y";  var b = a + "z";
ConcatProgram ==
    << Function(0, "",
           <<OpConstant, 1, OpConstant, 2, OpAdd, OpDefineGlobal, 0,
             OpGetGlobal, 4, OpConstant, 5, OpAdd, OpDefineGlobal, 3,
             OpNil, OpReturn>>,
           <<LitString(<<"a">>), LitString(<<"x">>), LitString(<<"y">>),
             LitString(<<"b">>), LitString(<<"a">>), LitString(<<"z">>)>>) >>

\* { var s = "a" + "b"; -s; }
LocalErrorProgram ==
    << Function(0, "",
           <<OpConstant, 0, OpConstant, 1, OpAdd, OpGetLocal, 0, OpNegate,
             OpPop, OpPop, OpNil, OpReturn>>,
           <<LitString(<<"a">>), LitString(<<"b">>)>>) >>

\* println("hi");
PrintlnProgram ==
    << Function(0, "",
           <<OpGetGlobal, 0, OpConstant, 1, OpCall, 1, OpPop, OpNil, OpReturn>>,
           <<LitString(<<"p", "r", "i", "n", "t", "l", "n">>),
             LitString(<<"h", "i">>)>>) >>

\* clock();
ClockProgram ==
    << Function(0, "",
           <<OpGetGlobal, 0, OpCall, 0, OpPop, OpNil, OpReturn>>,
           <<LitString(<<"c", "l", "o", "c", "k">>)>>) >>

\* if (1 > 0) print 1;
PrintProgram ==
    << Function(0, "",
           <<OpConstant, 0, OpConstant, 1, OpGreater,
             OpJumpIfFalse, 0, 7, OpPop,
             OpConstant, 2, OpPrint,
             OpJump, 0, 1, OpPop,
             OpNil, OpReturn>>,
           <<Number(1), Number(0), Number(1)>>) >>

\* print a;
PrintGlobalProgram ==
    << Function(0, "", <<OpGetGlobal, 0, OpPrint, OpNil, OpReturn>>,
           <<LitString(<<"a">>)>>) >>

\* the distance counted from the first placeholder byte instead of the byte
\* after the operand
PatchJumpFromOperand(len, offset) ==
    LET jump == len - offset
    IN IF jump > 65535
       THEN [error |-> "Too much code to jump over", bytes |-> <<255, 255>>]
       ELSE [error |-> "",
             bytes |-> <<(jump % 65536) \div 256, (jump % 65536) % 256>>]

\* patch_jump: the distance from the byte after the two placeholders at
\* offset to the end of the code, of length len, is written big-endian
patch_jump(len, offset) ==
    LET jump == len - offset - 2
    IN IF jump > 65535
       THEN [error |-> "Too much code to jump over", bytes |-> <<255, 255>>]
       ELSE [error |-> "",
             bytes |-> <<(jump % 65536) \div 256, (jump % 65536) % 256>>]

\* the offset written without the check, as `offset as u16` converts it
EmitLoopUnchecked(len, loop_start) ==
    [error |-> "",
     bytes |-> <<(((len + 1) - loop_start + 2) % 65536) \div 256,
                 ((len + 1) - loop_start + 2) % 256>>]

\* emit_loop when the code has len bytes: OpLoop is emitted, then the offset
\* back to loop_start, big-endian
emit_loop(len, loop_start) ==
    LET offset == (len + 1) - loop_start + 2
    IN IF offset > 65535
       THEN [error |-> "Loop body too large", bytes |-> <<>>]
       ELSE [error |-> "",
             bytes |-> <<(offset % 65536) \div 256, (offset % 65536) % 256>>]

\* the operand expressions of the programs below
OperandNames ==
    <<"nil", "false", "true", "0", "1", "empty", "a", "heap", "fn", "native">>
Operands == 1..Len(OperandNames)

\* the constants operand expression e adds to the pool:
\* nil, false, true, 0, 1, "", "a", "a" + "" (a heap string), f, clock
OperandConstants(e) ==
    CASE OperandNames[e] \in {"nil", "false", "true"} -> <<>>
      [] OperandNames[e] = "0" -> <<Number(0)>>
      [] OperandNames[e] = "1" -> <<Number(1)>>
      [] OperandNames[e] = "empty" -> <<LitString(<<>>)>>
      [] OperandNames[e] = "a" -> <<LitString(<<"a">>)>>
      [] OperandNames[e] = "heap" -> <<LitString(<<"a">>), LitString(<<>>)>>
      [] OperandNames[e] = "fn" -> <<LitString(<<"f">>)>>
      [] OperandNames[e] = "native" -> <<LitString(<<"c", "l", "o", "c", "k">>)>>

\* the code of operand expression e when the pool holds k constants
OperandCode(e, k) ==
    CASE OperandNames[e] = "nil" -> <<OpNil>>
      [] OperandNames[e] = "false" -> <<OpFalse>>
      [] OperandNames[e] = "true" -> <<OpTrue>>
      [] OperandNames[e] \in {"0", "1", "empty", "a"} -> <<OpConstant, k>>
      [] OperandNames[e] = "heap" -> <<OpConstant, k, OpConstant, k + 1, OpAdd>>
      [] OperandNames[e] \in {"fn", "native"} -> <<OpGetGlobal, k>>

\* the instruction of a unary or binary operator
OperatorOf(kind) ==
    CASE kind = "not" -> OpNot
      [] kind = "negate" -> OpNegate
      [] kind = "add" -> OpAdd
      [] kind = "subtract" -> OpSubtract
      [] kind = "multiply" -> OpMultiply
      [] kind = "divide" -> OpDivide
      [] kind = "greater" -> OpGreater
      [] kind = "less" -> OpLess
      [] kind = "equal" -> OpEqual

UnaryKinds == {"not", "negate"}
BinaryKinds ==
    {"add", "subtract", "multiply", "divide", "greater", "less", "equal"}

\* the function f of the programs below
EmptyFunction == Function(0, "f", <<OpNil, OpReturn>>, <<>>)

\* fun f() {}  var r = !e;     (or -e)
UnaryProgram(kind, e) ==
    << Function(0, "",
           <<OpConstant, 1, OpDefineGlobal, 0>>
               \o OperandCode(e, 3)
               \o <<OperatorOf(kind), OpDefineGlobal, 2, OpNil, OpReturn>>,
           <<LitString(<<"f">>), FnConst(2), LitString(<<"r">>)>>
               \o OperandConstants(e)),
       EmptyFunction >>

\* fun f() {}  var r = !!e;
NotNotProgram(e) ==
    << Function(0, "",
           <<OpConstant, 1, OpDefineGlobal, 0>>
               \o OperandCode(e, 3)
               \o <<OpNot, OpNot, OpDefineGlobal, 2, OpNil, OpReturn>>,
           <<LitString(<<"f">>), FnConst(2), LitString(<<"r">>)>>
               \o OperandConstants(e)),
       EmptyFunction >>

\* fun f() {}  var r = e1 + e2;     (or another binary operator)
BinaryProgram(kind, e1, e2) ==
    << Function(0, "",
           <<OpConstant, 1, OpDefineGlobal, 0>>
               \o OperandCode(e1, 3)
               \o OperandCode(e2, 3 + Len(OperandConstants(e1)))
               \o <<OperatorOf(kind), OpDefineGlobal, 2, OpNil, OpReturn>>,
           <<LitString(<<"f">>), FnConst(2), LitString(<<"r">>)>>
               \o OperandConstants(e1) \o OperandConstants(e2)),
       EmptyFunction >>

\* (x = 1)  when the pool holds k constants: the name, then the literal
AssignX(k) == <<OpConstant, k + 1, OpSetGlobal, k>>

\* logical_and after the left operand's code: emit_jump, OpPop, the right
\* operand rhs, patch_jump
logical_and(rhs) ==
    <<OpJumpIfFalse>> \o patch_jump(3 + 1 + Len(rhs), 1).bytes
        \o <<OpPop>> \o rhs

\* logical_or after the left operand's code: two emit_jump, patch_jump of
\* the first, OpPop, the right operand rhs, patch_jump of the second
logical_or(rhs) ==
    <<OpJumpIfFalse>> \o patch_jump(6, 1).bytes
        \o <<OpJump>> \o patch_jump(6 + 1 + Len(rhs), 4).bytes
        \o <<OpPop>> \o rhs

\* fun f() {}  var x = 0;  var r = e and (x = 1);     (or: e or (x = 1))
LogicalProgram(kind, e) ==
    << Function(0, "",
           <<OpConstant, 1, OpDefineGlobal, 0,
             OpConstant, 3, OpDefineGlobal, 2>>
               \o OperandCode(e, 5)
               \o (IF kind = "and"
                   THEN logical_and(AssignX(5 + Len(OperandConstants(e))))
                   ELSE logical_or(AssignX(5 + Len(OperandConstants(e)))))
               \o <<OpDefineGlobal, 4, OpNil, OpReturn>>,
           <<LitString(<<"f">>), FnConst(2), LitString(<<"x">>), Number(0),
             LitString(<<"r">>)>>
               \o OperandConstants(e)
               \o <<LitString(<<"x">>), Number(1)>>),
       EmptyFunction >>

\* the statements of the programs below: x = v;  i = i + 1;  nil;
\* with the pool index k of the first constant each adds
AssignStatement(k) == <<OpConstant, k + 1, OpSetGlobal, k, OpPop>>
IncrementGlobal(k) == <<OpGetGlobal, k + 1, OpConstant, k + 2, OpAdd, OpSetGlobal, k, OpPop>>
NilStatements(n) == [i \in 1..(2 * n) |-> IF i % 2 = 1 THEN OpNil ELSE OpPop]

\* if (cond) then_branch else else_branch: the condition, emit_jump of
\* JUMP_IF_FALSE, POP, the then branch, emit_jump of JUMP, patch_jump of the
\* first, POP, the else branch (empty without else), patch_jump of the second
if_statement(cond, then_branch, else_branch) ==
    LET then_jump == Len(cond) + 1
        after_then == Len(cond) + 3 + 1 + Len(then_branch)
        else_jump == after_then + 1
        at_else == after_then + 3
        end == at_else + 1 + Len(else_branch)
    IN cond \o <<OpJumpIfFalse>> \o patch_jump(at_else, then_jump).bytes
            \o <<OpPop>> \o then_branch
            \o <<OpJump>> \o patch_jump(end, else_jump).bytes
            \o <<OpPop>> \o else_branch

\* while (cond) body: the condition at loop_start, emit_jump of JUMP_IF_FALSE,
\* POP, the body, emit_loop(loop_start), patch_jump, POP
while_statement(cond, body) ==
    LET exit_jump == Len(cond) + 1
        before_loop == Len(cond) + 3 + 1 + Len(body)
    IN cond \o <<OpJumpIfFalse>> \o patch_jump(before_loop + 3, exit_jump).bytes
            \o <<OpPop>> \o body
            \o <<OpLoop>> \o emit_loop(before_loop, 0).bytes
            \o <<OpPop>>

\* for (init; cond; step) body with one local declared by init: the scope is
\* opened, init, the condition at loop_start, emit_jump of JUMP_IF_FALSE, POP,
\* emit_jump of JUMP over the step, the step and its POP at increment_start,
\* emit_loop(loop_start), patch_jump of the JUMP, the body,
\* emit_loop(increment_start), patch_jump of the exit, POP, end_scope
for_statement(init, cond, step, body) ==
    LET loop_start == Len(init)
        exit_jump == loop_start + Len(cond) + 1
        body_jump == exit_jump + 2 + 1 + 1
        increment_start == body_jump + 2
        first_loop == increment_start + Len(step) + 1
        at_body == first_loop + 3
        second_loop == at_body + Len(body)
    IN init \o cond
            \o <<OpJumpIfFalse>> \o patch_jump(second_loop + 3, exit_jump).bytes
            \o <<OpPop>>
            \o <<OpJump>> \o patch_jump(at_body, body_jump).bytes
            \o step \o <<OpPop>>
            \o <<OpLoop>> \o emit_loop(first_loop, loop_start).bytes
            \o body
            \o <<OpLoop>> \o emit_loop(second_loop, increment_start).bytes
            \o <<OpPop>>
            \o <<OpPop>>

\* the statements of a body that is longer than one byte can count
LongBody == 128

\* the operand expressions a condition is made of
ConditionOperands == {e \in Operands : OperandNames[e] \notin {"fn", "native"}}

\* var x = 0;  if (e) x = 1;     and, with otherwise = 1:  ... else x = 2;
IfProgram(e, otherwise) ==
    << Function(0, "",
           <<OpConstant, 1, OpDefineGlobal, 0>>
               \o if_statement(OperandCode(e, 2),
                               AssignStatement(2 + Len(OperandConstants(e))),
                               IF otherwise = 1
                               THEN AssignStatement(4 + Len(OperandConstants(e)))
                               ELSE <<>>)
               \o <<OpNil, OpReturn>>,
           <<LitString(<<"x">>), Number(0)>>
               \o OperandConstants(e)
               \o <<LitString(<<"x">>), Number(1), LitString(<<"x">>), Number(2)>>) >>

\* if (e) { nil; .. nil; }     with LongBody statements
LongIfProgram(e) ==
    << Function(0, "",
           if_statement(OperandCode(e, 0), NilStatements(LongBody), <<>>)
               \o <<OpNil, OpReturn>>,
           OperandConstants(e)) >>

\* var i = 0;  while (i < n) i = i + 1;
WhileProgram(n) ==
    << Function(0, "",
           <<OpConstant, 1, OpDefineGlobal, 0>>
               \o while_statement(<<OpGetGlobal, 2, OpConstant, 3, OpLess>>,
                                  IncrementGlobal(4))
               \o <<OpNil, OpReturn>>,
           <<LitString(<<"i">>), Number(0), LitString(<<"i">>), Number(n),
             LitString(<<"i">>), LitString(<<"i">>), Number(1)>>) >>

\* var i = 0;  while (i < n) { i = i + 1; nil; .. nil; }
LongWhileProgram(n) ==
    << Function(0, "",
           <<OpConstant, 1, OpDefineGlobal, 0>>
               \o while_statement(<<OpGetGlobal, 2, OpConstant, 3, OpLess>>,
                                  IncrementGlobal(4) \o NilStatements(LongBody))
               \o <<OpNil, OpReturn>>,
           <<LitString(<<"i">>), Number(0), LitString(<<"i">>), Number(n),
             LitString(<<"i">>), LitString(<<"i">>), Number(1)>>) >>

\* for (var i = 0; i < n; i = i + 1) print i;
ForProgram(n) ==
    << Function(0, "",
           for_statement(<<OpConstant, 0>>,
                         <<OpGetLocal, 0, OpConstant, 1, OpLess>>,
                         <<OpGetLocal, 0, OpConstant, 2, OpAdd, OpSetLocal, 0>>,
                         <<OpGetLocal, 0, OpPrint>>)
               \o <<OpNil, OpReturn>>,
           <<Number(0), Number(n), Number(1)>>) >>

\* the value the programs below give to the local of index s of a function
SlotValue(s) == Number(10 + s)

\* CONSTANT first; .. : n literals, the values of the locals from slot
\* GET_LOCAL first; PRINT; .. : n reads of the locals from first
SlotConstants(slot, n) == [i \in 1..n |-> SlotValue(slot + i - 1)]
PrintLocals(first, n) ==
    [i \in 1..(3 * n) |->
        CASE i % 3 = 1 -> OpGetLocal
          [] i % 3 = 2 -> first + ((i - 1) \div 3)
          [] OTHER -> OpPrint]

\* fun f(p0, .., pn-1) { var l = ..; (m locals)  print p0; .. print l;  return 7; }
\* { var a = 10;  f(10, ..);  var b = 11;  print b;  a = 10;  print a; }
\* every local is given the value 10 + its index
SlotsProgram(n, m) ==
    << Function(0, "",
           <<OpConstant, 1, OpDefineGlobal, 0, OpConstant, 2, OpGetGlobal, 3>>
               \o ConstantRun(4, n)
               \o <<OpCall, n, OpPop,
                    OpConstant, 4 + n,
                    OpGetLocal, 1, OpPrint,
                    OpConstant, 5 + n, OpSetLocal, 0, OpPop,
                    OpGetLocal, 0, OpPrint,
                    OpPop, OpPop, OpNil, OpReturn>>,
           <<LitString(<<"f">>), FnConst(2), SlotValue(0), LitString(<<"f">>)>>
               \o SlotConstants(0, n)
               \o <<SlotValue(1), SlotValue(0)>>),
       Function(n, "f",
           ConstantRun(0, m) \o PrintLocals(0, n + m)
               \o <<OpConstant, m, OpReturn, OpNil, OpReturn>>,
           SlotConstants(n, m) \o <<Number(7)>>) >>

\* u = 1;
SetGlobalProgram ==
    << Function(0, "",
           <<OpConstant, 1, OpSetGlobal, 0, OpPop, OpNil, OpReturn>>,
           <<LitString(<<"u">>), Number(1)>>) >>

\* the argument counts tried against the one-parameter function
MismatchArgcs == {0, 2, 255}

Prog(kind, n, m) == [kind |-> kind, n |-> n, m |-> m]

Programs ==
    {Prog("call", n, m) : n \in 0..MaxArgs, m \in 0..MaxLocals}
        \cup {Prog("mismatch", a, 0) : a \in MismatchArgcs}
        \cup {Prog(k, 0, 0) : k \in {"recurse", "deep", "concat", "localerr",
                                     "println", "clock", "print", "printglobal",
                                     "setglobal"}}
        \cup {Prog("notnot", 2, 0), Prog("equal", 7, 8), Prog("and", 3, 0)}
        \cup {Prog("for", 2, 0)}
        \cup {Prog("badvar", 0, 0), Prog("badfun", 0, 0)}

\* the programs that read nothing an earlier input left behind: they are
\* given as the first input of a session
OpeningPrograms ==
    {"call", "mismatch", "recurse", "deep", "notnot", "equal", "and", "for"}

\* the files run_file is given: one program each
FilePrograms ==
    {Prog(k, e, 0) : k \in UnaryKinds \cup {"notnot", "and", "or"}, e \in Operands}
        \cup {Prog(k, e1, e2) : k \in BinaryKinds \ {"divide"},
                                e1 \in Operands, e2 \in Operands}
        \cup {Prog("divide", e1, e2) :
                 e1 \in Operands, e2 \in {e \in Operands : OperandNames[e] # "0"}}
        \cup {Prog(k, 0, 0) : k \in {"deep", "print", "printglobal", "setglobal"}}
        \cup {Prog("if", e, otherwise) : e \in ConditionOperands, otherwise \in {0, 1}}
        \cup {Prog("longif", e, 0) : e \in {e \in Operands : OperandNames[e] \in {"false", "true"}}}
        \cup {Prog(k, n, 0) : k \in {"while", "for"}, n \in 0..MaxLocals}
        \cup {Prog("longwhile", 1, 0)}
        \cup {Prog("slots", n, m) : n \in 0..MaxArgs, m \in 0..MaxLocals}

FunctionsOf(p) ==
    CASE p.kind = "call" -> CallProgram(p.n, p.m)
      [] p.kind = "mismatch" -> MismatchProgram(p.n)
      [] p.kind = "recurse" -> RecurseProgram
      [] p.kind = "deep" -> DeepMismatchProgram
      [] p.kind = "concat" -> ConcatProgram
      [] p.kind = "localerr" -> LocalErrorProgram
      [] p.kind = "println" -> PrintlnProgram
      [] p.kind = "clock" -> ClockProgram
      [] p.kind = "print" -> PrintProgram
      [] p.kind = "printglobal" -> PrintGlobalProgram
      [] p.kind \in UnaryKinds -> UnaryProgram(p.kind, p.n)
      [] p.kind = "notnot" -> NotNotProgram(p.n)
      [] p.kind \in BinaryKinds -> BinaryProgram(p.kind, p.n, p.m)
      [] p.kind \in {"and", "or"} -> LogicalProgram(p.kind, p.n)
      [] p.kind = "setglobal" -> SetGlobalProgram
      [] p.kind = "if" -> IfProgram(p.n, p.m)
      [] p.kind = "longif" -> LongIfProgram(p.n)
      [] p.kind = "while" -> WhileProgram(p.n)
      [] p.kind = "longwhile" -> LongWhileProgram(p.n)
      [] p.kind = "for" -> ForProgram(p.n)
      [] p.kind = "slots" -> SlotsProgram(p.n, p.m)

\* the names a global can have in these programs
Names == {<<"f">>, <<"g">>, <<"a">>, <<"b">>, <<"r">>, <<"x">>, <<"u">>, <<"i">>,
          <<"c", "l", "o", "c", "k">>, <<"p", "r", "i", "n", "t", "l", "n">>}

-----------------------------------------------------------------------------
(* Heap objects and the values that point to them *)

\* Box<Object>: ty is the ObjectType, frees counts how often the box was
\* freed (Box::from_raw dropped); a String has its characters s, a Function
\* is the k-th function of program prog compiled when the heap held base
\* objects, a Native has the name of its function pointer
Object(ty, s, prog, k, base, native) ==
    [ty |-> ty, frees |-> 0, s |-> s, prog |-> prog, k |-> k, base |-> base,
     native |-> native]

StringObject(s) == Object("String", s, Prog("", 0, 0), 0, 0, "")
FunctionObject(prog, k, base) == Object("Function", <<>>, prog, k, base, "")
NativeObject(native) == Object("Native", <<>>, Prog("", 0, 0), 0, 0, native)

\* a pointer whose box was freed
Dangling(h, v) == is_object(v) /\ h[v.p].frees > 0

is_function(h, v) == is_object(v) /\ h[v.p].ty = "Function"
is_native(h, v) == is_object(v) /\ h[v.p].ty = "Native"
is_string(h, v) == (is_object(v) /\ h[v.p].ty = "String") \/ v.t = "str"

as_function_ref(h, v) == FunctionsOf(h[v.p].prog)[h[v.p].k]

\* Display for FunctionObject
FunctionDisplay(f) ==
    IF f.name = "" THEN <<"<script>">> ELSE <<"<fn ", f.name, ">">>

\* From<Value> for String: the characters of a value; for a pointer the box
\* is taken over with Box::from_raw (FreeValue below is its effect on the heap)
as_string(h, v) ==
    CASE v.t = "obj" /\ h[v.p].ty = "String" -> h[v.p].s
      [] v.t = "obj" /\ h[v.p].ty = "Function" -> FunctionDisplay(as_function_ref(h, v))
      [] v.t = "obj" /\ h[v.p].ty = "Native" -> <<"<native>">>
      [] v.t = "str" -> v.s
      [] v.t = "num" -> Digits(v.n)
      [] v.t = "bool" -> IF v.b THEN <<"true">> ELSE <<"false">>
      [] v.t = "nil" -> <<"Nil">>

\* dropping the Box of the object v points to (nothing for other values)
FreeValue(h, v) ==
    IF is_object(v) THEN [h EXCEPT ![v.p].frees = @ + 1] ELSE h

\* the pointers held in a sequence of values
Pointers(vals) == {vals[i].p : i \in {j \in DOMAIN vals : is_object(vals[j])}}

\* a box of h was freed again on the way to h2
DoubleFreed(h, h2) ==
    \E i \in DOMAIN h : h2[i].frees > h[i].frees /\ h2[i].frees > 1

\* undefined behaviour may end the process instead of going on
Outcome(ub, normal) == IF ub THEN {normal, "crashed"} ELSE {normal}

\* remove_object_pointer: unlink the first node that is the pointer of v
RECURSIVE remove_object_pointer(_, _)
remove_object_pointer(objs, ptr) ==
    IF objs = <<>> THEN <<>>
    ELSE IF Head(objs) = ptr THEN Tail(objs)
    ELSE <<Head(objs)>> \o remove_object_pointer(Tail(objs), ptr)

Unlink(objs, v) == IF is_object(v) THEN remove_object_pointer(objs, v.p) ELSE objs

\* free_objects then reset_stack: every node of the list is freed, then
\* every distinct pointer found on the value stack is freed
ResetHeap(h, objs, stk) ==
    [i \in DOMAIN h |->
        [h[i] EXCEPT !.frees = @ + (IF i \in Range(objs) THEN 1 ELSE 0)
                                 + (IF i \in Pointers(stk) THEN 1 ELSE 0)]]

\* the arguments of a runtime error's message: the format string and what
\* fills its holes
NoError == [msg |-> "", a |-> 0, b |-> 0, name |-> <<>>]
Error(msg) == [msg |-> msg, a |-> 0, b |-> 0, name |-> <<>>]
ArityError(arity, arg_count) ==
    [msg |-> "Expected {arity} arguments but got {arg_count}.",
     a |-> arity, b |-> arg_count, name |-> <<>>]
UndefinedError(name) ==
    [msg |-> "Undefined variable '{name}'", a |-> 0, b |-> 0, name |-> name]

\* function.chunk.lines[instruction]; 0 stands for an index out of range
LineOf(function, instruction) ==
    IF instruction \in 0..(Len(function.code) - 1)
    THEN ChunkLines(function.code)[instruction + 1]
    ELSE 0

\* the trace with the frames taken from the top-level script inwards
TraceOutermostFirst(arguments, h, frs) ==
    [msg |-> arguments.msg, a |-> arguments.a, b |-> arguments.b,
     name |-> arguments.name,
     trace |-> [i \in 1..Len(frs) |-> as_function_ref(h, frs[i].function).name],
     lines |-> [i \in 1..Len(frs) |->
                  LineOf(as_function_ref(h, frs[i].function), frs[i].ip_offset - 1)]]

\* VMError::RuntimeError: the message and, for every active frame from the
\* innermost outwards, the line of the instruction it executes and the name
\* of its function
RuntimeError(arguments, h, frs) ==
    [msg |-> arguments.msg, a |-> arguments.a, b |-> arguments.b,
     name |-> arguments.name,
     trace |-> [i \in 1..Len(frs) |->
                  as_function_ref(h, frs[Len(frs) + 1 - i].function).name],
     lines |-> [i \in 1..Len(frs) |->
                  LineOf(as_function_ref(h, frs[Len(frs) + 1 - i].function),
                         frs[Len(frs) + 1 - i].ip_offset - 1)]]
NoRuntimeError == RuntimeError(NoError, <<>>, <<>>)

-----------------------------------------------------------------------------
(* The virtual machine *)

CallFrame(function, ip_offset, starting_offset) ==
    [function |-> function, ip_offset |-> ip_offset,
     starting_offset |-> starting_offset]

current_frame == frames[Len(frames)]
chunk == as_function_ref(heap, current_frame.function)

\* the byte at ip_offset + d of the current chunk
ByteAt(d) == chunk.code[current_frame.ip_offset + d + 1]
opcode == ByteAt(0)

\* read_u16 of the two bytes after the opcode
read_u16 == ByteAt(1) * 256 + ByteAt(2)

\* read_constant: the constant the byte after the opcode indexes; a function
\* constant is the pointer made when its program was compiled
read_constant ==
    LET c == chunk.constants[ByteAt(1) + 1]
    IN IF c.t = "fn"
       THEN Obj(heap[current_frame.function.p].base + c.k)
       ELSE c

\* the frames with the ip of the current one moved by d
Advance(d) == [frames EXCEPT ![Len(frames)].ip_offset = @ + d]

pop(stk) == IF stk = <<>> THEN <<>> ELSE Front(stk)

\* replace_or_push: overwrite the slot at index (0-based) or push
replace_or_push(stk, value, index) ==
    IF index < Len(stk) THEN [stk EXCEPT ![index + 1] = value]
    ELSE Append(stk, value)

\* construct_runtime_error with the value stack stk, heap h and frames frs:
\* the message is built, which indexes the lines of every frame's chunk, then
\* reset_vm frees the list and the stack and clears the frames
construct_runtime_error(arguments, stk, h, frs) ==
    LET h2 == ResetHeap(h, objects, stk)
        error == RuntimeError(arguments, h, frs)
    IN IF \E i \in 1..Len(frs) : error.lines[i] = 0
       THEN /\ status' = "panic"
            /\ UNCHANGED <<stack, frames, objects, heap, globals, err>>
       ELSE /\ heap' = h2
            /\ objects' = <<>>
            /\ stack' = <<>>
            /\ frames' = <<>>
            /\ err' = error
            /\ status' \in Outcome(DoubleFreed(h, h2), "error")
            /\ UNCHANGED globals

\* a panic of the Rust runtime (index out of bounds, unwrap of None)
Panic ==
    /\ status' = "panic"
    /\ UNCHANGED <<stack, frames, objects, heap, globals, err>>

\* the frame limit compared with > where the code compares with ==
CallCheckLateLimit(arity, arg_count, nframes) ==
    IF arg_count # arity THEN "arity"
    ELSE IF nframes > FRAMES_MAX THEN "overflow"
    ELSE "push"

\* the frame limit checked before the arity
CallCheckLimitFirst(arity, arg_count, nframes) ==
    IF nframes = FRAMES_MAX THEN "overflow"
    ELSE IF arg_count # arity THEN "arity"
    ELSE "push"

\* VM::call: what the two checks decide for a callee of this arity
CallCheck(arity, arg_count, nframes) ==
    IF arg_count # arity THEN "arity"
    ELSE IF nframes = FRAMES_MAX THEN "overflow"
    ELSE "push"

\* VM::call on the value stack stk, the heap h and the frames frs
call(function, arg_count, stk, h, frs) ==
    LET arity == as_function_ref(h, function).arity
        check == CallCheck(arity, arg_count, Len(frs))
    IN CASE check = "arity" ->
               construct_runtime_error(ArityError(arity, arg_count), stk, h, frs)
         [] check = "overflow" ->
               construct_runtime_error(Error("Stack overflow."), stk, h, frs)
         [] check = "push" ->
               /\ frames' = Append(frs, CallFrame(function, 0, Len(stk) - arg_count))
               /\ stack' = stk
               /\ heap' = h
               /\ status' \in Outcome(Dangling(h, function), "running")
               /\ err' = NoRuntimeError
               /\ UNCHANGED <<objects, globals>>

\* the error of the first declaration of an input: `var 1;` and `fun 1() {}`
\* have no identifier where parse_variable consumes one
DeclarationError(p) ==
    CASE p.kind = "badvar" -> "Expected variable name"
      [] p.kind = "badfun" -> "Expected function name"
      [] OTHER -> ""

\* compile on the content of the line buffer: the declarations are compiled
\* in order until Eof and the first error is returned
compile(buffer) ==
    LET failing == {i \in 1..Len(buffer) : DeclarationError(buffer[i]) # ""}
    IN IF failing = {} THEN ""
       ELSE DeclarationError(buffer[CHOOSE i \in failing : \A j \in failing : i <= j])

\* reset_vm
reset_vm ==
    LET h2 == ResetHeap(heap, objects, stack)
    IN /\ heap' = h2
       /\ objects' = <<>>
       /\ stack' = <<>>
       /\ frames' = <<>>
       /\ status' \in Outcome(DoubleFreed(heap, h2), "idle")

\* the reset made before the error is looked at, as execute does for a file
CompileFailedReset == reset_vm /\ UNCHANGED <<globals, err>>

\* repl after a compile error: the error is printed and the loop continues
CompileFailed == UNCHANGED <<stack, frames, objects, heap, globals, status, err>>

\* repl: one input is read into the line buffer and the buffer is compiled
\* (every function of the program becomes a heap object that no list
\* tracks), its script value is put on the stack and called; run() then
\* starts
ReadLine(p) ==
    /\ status = "idle"
    /\ inputs < MaxLines
    /\ p.kind \in OpeningPrograms => inputs = 0
    /\ line' = Append(line, p)
    /\ cerr' = compile(line')
    /\ IF cerr' # ""
       THEN CompileFailed
       ELSE LET fns == FunctionsOf(p)
                base == Len(heap)
                h == heap \o [k \in 1..Len(fns) |-> FunctionObject(p, k, base)]
                top_function == Obj(base + 1)
            IN call(top_function, 0, replace_or_push(stack, top_function, 0), h, frames)
    /\ inputs' = inputs + 1
    /\ source' = p
    /\ UNCHANGED <<function_type, locals, scope_depth, emitted, constants, enclosing,
                   previous, global, cstatus>>

\* repl: reset_vm after run() returned, with Ok or with an error; the line
\* buffer is cleared at the end of the round
HostReset ==
    /\ status \in {"ok", "error"}
    /\ reset_vm
    /\ line' = <<>>
    /\ UNCHANGED <<globals, err, inputs, source>>
    /\ UNCHANGED cvars

Running(op) == status = "running" /\ opcode = op

\* the stack op_return leaves: the result is popped, then the script value
\* (top-level frame) or two more values (a called function), and the result
\* is pushed back unless run() ends
ReturnStack(stk, nframes) ==
    LET result == stk[Len(stk)]
        rest == pop(stk)
    IN IF nframes = 1 THEN pop(rest)
       ELSE IF nframes > 1 THEN Append(pop(pop(rest)), result)
       ELSE Append(rest, result)

\* OpReturn
op_return ==
    /\ Running(OpReturn)
    /\ IF stack = <<>> THEN Panic
       ELSE /\ stack' = ReturnStack(stack, Len(frames))
            /\ IF Len(frames) = 1
               THEN status' = "ok" /\ frames' = Advance(1)
               ELSE status' = "running" /\ frames' = Front(frames)
            /\ UNCHANGED <<objects, heap, globals, err>>
    /\ UNCHANGED othervars

\* OpConstant
op_constant ==
    /\ Running(OpConstant)
    /\ stack' = Append(stack, read_constant)
    /\ frames' = Advance(2)
    /\ UNCHANGED <<objects, heap, globals, status, err>>
    /\ UNCHANGED othervars

\* OpNil
op_nil ==
    /\ Running(OpNil)
    /\ stack' = Append(stack, Nil)
    /\ frames' = Advance(1)
    /\ UNCHANGED <<objects, heap, globals, status, err>>
    /\ UNCHANGED othervars

\* OpTrue
op_true ==
    /\ Running(OpTrue)
    /\ stack' = Append(stack, Bool(TRUE))
    /\ frames' = Advance(1)
    /\ UNCHANGED <<objects, heap, globals, status, err>>
    /\ UNCHANGED othervars

\* OpFalse
op_false ==
    /\ Running(OpFalse)
    /\ stack' = Append(stack, Bool(FALSE))
    /\ frames' = Advance(1)
    /\ UNCHANGED <<objects, heap, globals, status, err>>
    /\ UNCHANGED othervars

\* OpPop
op_pop ==
    /\ Running(OpPop)
    /\ IF stack = <<>>
       THEN construct_runtime_error(Error("Expected value on the stack"), stack, heap, Advance(1))
       ELSE /\ stack' = pop(stack)
            /\ frames' = Advance(1)
            /\ UNCHANGED <<objects, heap, globals, status, err>>
    /\ UNCHANGED othervars

\* OpPrint: the popped value is displayed, which reads the box of a pointer
op_print ==
    /\ Running(OpPrint)
    /\ IF stack = <<>>
       THEN construct_runtime_error(Error("Expected value on the stack"), stack, heap, Advance(1))
       ELSE /\ stack' = pop(stack)
            /\ frames' = Advance(1)
            /\ status' \in Outcome(Dangling(heap, stack[Len(stack)]), "running")
            /\ UNCHANGED <<objects, heap, globals, err>>
    /\ UNCHANGED othervars

\* OpNegate
op_negate ==
    /\ Running(OpNegate)
    /\ IF stack = <<>>
       THEN construct_runtime_error(Error("Expected an operand."), stack, heap, Advance(1))
       ELSE LET value == stack[Len(stack)]
            IN IF is_number(value)
               THEN /\ stack' = Append(pop(stack), Number(0 - value.n))
                    /\ frames' = Advance(1)
                    /\ UNCHANGED <<objects, heap, globals, status, err>>
               ELSE construct_runtime_error(Error("Operand must be a number."),
                                            pop(stack), heap, Advance(1))
    /\ UNCHANGED othervars

\* concatenate_strings: an operand that is a pointer is unlinked from the
\* object list and its box is consumed by as_string; the result is a new
\* tracked String object, pushed on stk
concatenate_strings(left_operand, right_operand, stk) ==
    LET objs == Unlink(Unlink(objects, left_operand), right_operand)
        left == as_string(heap, left_operand)
        right == as_string(heap, right_operand)
        h1 == FreeValue(FreeValue(heap, left_operand), right_operand)
        ptr == Len(heap) + 1
    IN /\ heap' = Append(h1, StringObject(left \o right))
       /\ objects' = <<ptr>> \o objs
       /\ stack' = Append(stk, Obj(ptr))
       /\ frames' = Advance(1)
       /\ status' \in Outcome(DoubleFreed(heap, h1), "running")
       /\ UNCHANGED <<globals, err>>

\* op_not
op_not ==
    /\ Running(OpNot)
    /\ IF stack = <<>>
       THEN construct_runtime_error(Error("Expected value on stack"), stack, heap, Advance(1))
       ELSE LET val == stack[Len(stack)]
            IN IF is_bool(val) \/ is_nil(val)
               THEN /\ stack' = Append(pop(stack), Bool(is_falsey(val)))
                    /\ frames' = Advance(1)
                    /\ UNCHANGED <<objects, heap, globals, status, err>>
               ELSE construct_runtime_error(
                        Error("Operand of ! operator should be a bool or nil"),
                        pop(stack), heap, Advance(1))
    /\ UNCHANGED othervars

\* the derived PartialEq of Value: literals are compared by variant and
\* content, pointers by address, and a literal never equals a pointer
ValueEq(a, b) == a.t = b.t /\ a = b

\* op_equal
op_equal ==
    /\ Running(OpEqual)
    /\ IF stack = <<>>
       THEN construct_runtime_error(Error("Expected value on stack"), stack, heap, Advance(1))
       ELSE IF Len(stack) = 1
       THEN construct_runtime_error(Error("Expected value on stack"), pop(stack), heap, Advance(1))
       ELSE LET a == stack[Len(stack)]
                b == stack[Len(stack) - 1]
            IN /\ stack' = Append(pop(pop(stack)), Bool(ValueEq(a, b)))
               /\ frames' = Advance(1)
               /\ UNCHANGED <<objects, heap, globals, status, err>>
    /\ UNCHANGED othervars

\* the instructions run() hands to binary_op
BinaryOps == {OpAdd, OpSubtract, OpMultiply, OpDivide, OpGreater, OpLess}

\* the result of binary_op on two numbers; the programs divide only by a
\* number that divides the dividend
Arithmetic(op, left, right) ==
    CASE op = OpAdd -> Number(left + right)
      [] op = OpSubtract -> Number(left - right)
      [] op = OpMultiply -> Number(left * right)
      [] op = OpDivide -> Number(left \div right)
      [] op = OpGreater -> Bool(left > right)
      [] op = OpLess -> Bool(left < right)

\* binary_op
binary_op ==
    /\ status = "running"
    /\ opcode \in BinaryOps
    /\ IF stack = <<>>
       THEN construct_runtime_error(Error("Expected value on stack"), stack, heap, Advance(1))
       ELSE IF Len(stack) = 1
       THEN construct_runtime_error(Error("Expected value on stack"), pop(stack), heap, Advance(1))
       ELSE LET right_operand == stack[Len(stack)]
                left_operand == stack[Len(stack) - 1]
                stk == pop(pop(stack))
                operands_are_numbers == is_number(right_operand) /\ is_number(left_operand)
                one_operand_is_string ==
                    is_string(heap, right_operand) \/ is_string(heap, left_operand)
            IN IF ~(operands_are_numbers \/ (one_operand_is_string /\ opcode = OpAdd))
               THEN construct_runtime_error(
                        Error("Invalid operation on these operands."), stk, heap, Advance(1))
               ELSE IF one_operand_is_string
               THEN concatenate_strings(left_operand, right_operand, stk)
               ELSE /\ stack' = Append(stk,
                           Arithmetic(opcode, left_operand.n, right_operand.n))
                    /\ frames' = Advance(1)
                    /\ UNCHANGED <<objects, heap, globals, status, err>>
    /\ UNCHANGED othervars

\* op_define_global
op_define_global ==
    /\ Running(OpDefineGlobal)
    /\ LET name == as_string(heap, read_constant)
       IN IF stack = <<>>
          THEN construct_runtime_error(Error("Expected value on the stack"), stack, heap, Advance(2))
          ELSE /\ globals' = [globals EXCEPT ![name] = stack[Len(stack)]]
               /\ stack' = pop(stack)
               /\ frames' = Advance(2)
               /\ UNCHANGED <<objects, heap, status, err>>
    /\ UNCHANGED othervars

\* op_get_global
op_get_global ==
    /\ Running(OpGetGlobal)
    /\ LET name == as_string(heap, read_constant)
       IN IF globals[name] = Absent
          THEN construct_runtime_error(UndefinedError(name), stack, heap, Advance(2))
          ELSE /\ stack' = Append(stack, globals[name])
               /\ frames' = Advance(2)
               /\ UNCHANGED <<objects, heap, globals, status, err>>
    /\ UNCHANGED othervars

\* the assignment made whether or not the name is bound
SetGlobalInserts ==
    /\ Running(OpSetGlobal)
    /\ LET name == as_string(heap, read_constant)
       IN IF stack = <<>>
          THEN construct_runtime_error(Error("Expected value on stack"), stack, heap, Advance(2))
          ELSE /\ globals' = [globals EXCEPT ![name] = stack[Len(stack)]]
               /\ frames' = Advance(2)
               /\ UNCHANGED <<stack, objects, heap, status, err>>
    /\ UNCHANGED othervars

\* op_set_global: the value stays on the stack
op_set_global ==
    /\ Running(OpSetGlobal)
    /\ LET name == as_string(heap, read_constant)
       IN IF stack = <<>>
          THEN construct_runtime_error(Error("Expected value on stack"), stack, heap, Advance(2))
          ELSE IF globals[name] = Absent
          THEN construct_runtime_error(UndefinedError(name), stack, heap, Advance(2))
          ELSE /\ globals' = [globals EXCEPT ![name] = stack[Len(stack)]]
               /\ frames' = Advance(2)
               /\ UNCHANGED <<stack, objects, heap, status, err>>
    /\ UNCHANGED othervars

\* op_get_local
op_get_local ==
    /\ Running(OpGetLocal)
    /\ LET slot == ByteAt(1)
           index == current_frame.starting_offset + slot
       IN IF index >= Len(stack) THEN Panic
          ELSE /\ stack' = Append(stack, stack[index + 1])
               /\ frames' = Advance(2)
               /\ UNCHANGED <<objects, heap, globals, status, err>>
    /\ UNCHANGED othervars

\* op_set_local: the value on top is written to the slot and stays on the stack
op_set_local ==
    /\ Running(OpSetLocal)
    /\ IF stack = <<>> THEN Panic
       ELSE LET slot == ByteAt(1)
                val == stack[Len(stack)]
                index == current_frame.starting_offset + slot
            IN /\ stack' = replace_or_push(stack, val, index)
               /\ frames' = Advance(2)
               /\ UNCHANGED <<objects, heap, globals, status, err>>
    /\ UNCHANGED othervars

\* the jump taken on a truthy condition
JumpIfTruthy ==
    /\ Running(OpJumpIfFalse)
    /\ IF stack = <<>> THEN Panic
       ELSE /\ frames' = IF is_falsey(stack[Len(stack)])
                         THEN Advance(3) ELSE Advance(3 + read_u16)
            /\ UNCHANGED <<stack, objects, heap, globals, status, err>>
    /\ UNCHANGED othervars

\* the conditional jump that pops the condition
JumpIfFalsePops ==
    /\ Running(OpJumpIfFalse)
    /\ IF stack = <<>> THEN Panic
       ELSE /\ frames' = IF is_falsey(stack[Len(stack)])
                         THEN Advance(3 + read_u16) ELSE Advance(3)
            /\ stack' = pop(stack)
            /\ UNCHANGED <<objects, heap, globals, status, err>>
    /\ UNCHANGED othervars

\* OpJumpIfFalse: the condition is only looked at, not popped
op_jump_if_false ==
    /\ Running(OpJumpIfFalse)
    /\ IF stack = <<>> THEN Panic
       ELSE /\ frames' = IF is_falsey(stack[Len(stack)])
                         THEN Advance(3 + read_u16) ELSE Advance(3)
            /\ UNCHANGED <<stack, objects, heap, globals, status, err>>
    /\ UNCHANGED othervars

\* the operand added to the offset of the opcode
JumpFromOpcode ==
    /\ Running(OpJump)
    /\ frames' = Advance(read_u16)
    /\ UNCHANGED <<stack, objects, heap, globals, status, err>>
    /\ UNCHANGED othervars

\* OpJump
op_jump ==
    /\ Running(OpJump)
    /\ frames' = Advance(3 + read_u16)
    /\ UNCHANGED <<stack, objects, heap, globals, status, err>>
    /\ UNCHANGED othervars

\* OpLoop: the operand is read, then subtracted from the ip
op_loop ==
    /\ Running(OpLoop)
    /\ IF current_frame.ip_offset + 3 < read_u16 THEN Panic
       ELSE /\ frames' = Advance(3 - read_u16)
            /\ UNCHANGED <<stack, objects, heap, globals, status, err>>
    /\ UNCHANGED othervars

\* the seconds clock_native can return
ClockValues == {0, 1}

\* op_call and call_value
op_call ==
    /\ Running(OpCall)
    /\ LET arg_count == ByteAt(1)
           callee_index == Len(stack) - arg_count - 1
       IN IF callee_index < 0 THEN Panic
          ELSE LET callee == stack[callee_index + 1]
               IN IF is_function(heap, callee)
                  THEN call(callee, arg_count, stack, heap, Advance(2))
                  ELSE IF is_native(heap, callee)
                  THEN /\ \E result \in
                              IF heap[callee.p].native = "clock"
                              THEN {Number(t) : t \in ClockValues}
                              ELSE {Nil} :
                            stack' = Append(SubSeq(stack, 1, callee_index), result)
                       /\ frames' = Advance(2)
                       /\ status' \in Outcome(
                              Dangling(heap, callee)
                                \/ (heap[callee.p].native = "println" /\ arg_count > 0
                                     /\ Dangling(heap, stack[callee_index + 2])),
                              "running")
                       /\ UNCHANGED <<objects, heap, globals, err>>
                  ELSE construct_runtime_error(
                           Error("Can only call functions and classes"), stack, heap, Advance(2))
    /\ UNCHANGED othervars

Init ==
    /\ stack = <<>>
    /\ frames = <<>>
    /\ heap = <<NativeObject("clock"), NativeObject("println")>>
    /\ objects = <<2, 1>>
    /\ globals = [n \in Names |->
                    CASE n = <<"c", "l", "o", "c", "k">> -> Obj(1)
                      [] n = <<"p", "r", "i", "n", "t", "l", "n">> -> Obj(2)
                      [] OTHER -> Absent]
    /\ status = "idle"
    /\ err = NoRuntimeError
    /\ inputs = 0
    /\ source = Prog("", 0, 0)
    /\ line = <<>>
    /\ function_type = [ty |-> "Script", arity |-> 0]
    /\ locals = <<>>
    /\ scope_depth = 0
    /\ emitted = <<>>
    /\ constants = <<>>
    /\ enclosing = <<>>
    /\ previous = [ty |-> "None", name |-> <<>>]
    /\ global = 0
    /\ cstatus = "declaration"
    /\ cerr = ""

\* VM::run: one instruction of the current frame is decoded and executed
Step ==
    \/ op_return
    \/ op_constant
    \/ op_nil
    \/ op_true
    \/ op_false
    \/ op_pop
    \/ op_print
    \/ op_negate
    \/ op_not
    \/ op_equal
    \/ binary_op
    \/ op_define_global
    \/ op_get_global
    \/ op_set_global
    \/ op_get_local
    \/ op_set_local
    \/ op_jump_if_false
    \/ op_jump
    \/ op_loop
    \/ op_call

Next ==
    \/ \E p \in Programs : ReadLine(p)
    \/ HostReset
    \/ Step

Spec == Init /\ [][Next]_vars

\* run() is a loop that keeps executing instructions until it returns
FairSpec == Spec /\ WF_vars(Step)

\* run_file: a new VM executes the content of one file (execute, as for one
\* line of the REPL), then reset_vm
run_file(p) ==
    /\ inputs = 0
    /\ ReadLine(p)

FileNext ==
    \/ \E p \in FilePrograms : run_file(p)
    \/ HostReset
    \/ Step

FileSpec == Init /\ [][FileNext]_vars

-----------------------------------------------------------------------------
(* The compiler: scopes and local variables *)

\* a token of the scanner; name is the lexeme of an identifier
Token(ty, name) == [ty |-> ty, name |-> name]

\* the identifiers of the compiled source
Identifiers == {<<"a">>, <<"b">>}

\* compiler::Local
Local(name, depth) == [name |-> name, depth |-> depth]

\* an instruction of the chunk: slot is the operand of a local access, name
\* the identifier held by the constant that a global access names
Instruction(op, slot, name) == [op |-> op, slot |-> slot, name |-> name]

emit_byte(code, op) == Append(code, Instruction(op, -1, <<>>))

emit_bytes(code, op, slot, name) == Append(code, Instruction(op, slot, name))

\* the index make_constant returns for a constant added to this pool
identifier_constant(pool) == Len(pool)

\* the walk goes on through the locals of the enclosing scopes
DeclareAcrossScopes(ls, name, depth) ==
    IF \E i \in 1..Len(ls) : ls[i].name = name
    THEN "Already a variable with this name in this scope."
    ELSE ""

\* the locals are walked from the newest; the walk stops at the first one of
\* an enclosing scope
declare_local_variable(ls, name, depth) ==
    LET outer == {i \in 1..Len(ls) : ls[i].depth # -1 /\ ls[i].depth < depth}
        walked == {i \in 1..Len(ls) : \A j \in outer : j < i}
    IN IF \E i \in walked : ls[i].name = name
       THEN "Already a variable with this name in this scope."
       ELSE ""

\* the locals are walked with iter().enumerate(), from index 0 upward, and
\* the first one with the name decides
resolve_local(ls, name) ==
    LET matches == {i \in 1..Len(ls) : ls[i].name = name} IN
    IF matches = {} THEN [error |-> "", slot |-> -1]
    ELSE LET i == CHOOSE j \in matches : \A k \in matches : j <= k IN
         IF ls[i].depth = -1
         THEN [error |-> "Can't read local variable in its own initializer",
               slot |-> -1]
         ELSE [error |-> "", slot |-> i - 1]

add_local_variable(ls, name) ==
    IF Len(ls) = UINT8_COUNT THEN "Too many local variables in scope" ELSE ""

mark_initialized(ls, depth) ==
    IF depth = 0 THEN ls
    ELSE [ls EXCEPT ![Len(ls)] = Local(ls[Len(ls)].name, depth)]

\* a single local popped from the end when it is deeper than depth
PopLastLocal(ls, depth) ==
    IF ls # <<>> /\ ls[Len(ls)].depth > depth THEN Front(ls) ELSE ls

\* the locals left when those deeper than depth are popped from the end
RECURSIVE PopLocals(_, _)
PopLocals(ls, depth) ==
    IF ls # <<>> /\ ls[Len(ls)].depth > depth
    THEN PopLocals(Front(ls), depth)
    ELSE ls

CompileError(message) ==
    /\ cstatus' = "error"
    /\ cerr' = message

\* a block statement opens: '{' was consumed
begin_scope ==
    /\ cstatus = "declaration"
    /\ scope_depth < MaxScopes
    /\ scope_depth' = scope_depth + 1
    /\ previous' = Token("LeftBrace", <<>>)
    /\ UNCHANGED <<function_type, locals, emitted, constants, enclosing, global, cstatus,
                   cerr>>
    /\ UNCHANGED vmvars

\* a block statement closes: '}' was consumed
end_scope ==
    /\ cstatus = "declaration"
    /\ scope_depth > (IF function_type.ty = "Function" THEN 1 ELSE 0)
    /\ LET kept == PopLocals(locals, scope_depth - 1) IN
       /\ Len(emitted) <= MaxCode
       /\ scope_depth' = scope_depth - 1
       /\ locals' = kept
       /\ emitted' = emitted \o Rep(Len(locals) - Len(kept),
                                    Instruction(OpPop, -1, <<>>))
    /\ previous' = Token("RightBrace", <<>>)
    /\ UNCHANGED <<function_type, constants, enclosing, global, cstatus, cerr>>
    /\ UNCHANGED vmvars

\* var_declaration up to the name: the identifier is consumed and, inside a
\* scope, declared as a local that is not yet initialized
parse_variable(name) ==
    /\ cstatus = "declaration"
    /\ scope_depth > 0 => Len(locals) < MaxSlots
    /\ previous' = Token("Identifier", name)
    /\ LET declared == declare_local_variable(locals, name, scope_depth)
           added == add_local_variable(locals, name)
       IN
       IF scope_depth = 0
       THEN /\ cstatus' = "initializer"
            /\ constants' = Append(constants, LitString(name))
            /\ global' = identifier_constant(constants)
            /\ UNCHANGED <<locals, cerr>>
       ELSE IF declared # ""
       THEN /\ CompileError(declared)
            /\ UNCHANGED <<locals, constants, global>>
       ELSE IF added # ""
       THEN /\ CompileError(added)
            /\ UNCHANGED <<locals, constants, global>>
       ELSE /\ locals' = Append(locals, Local(name, -1))
            /\ cstatus' = "initializer"
            /\ global' = 0
            /\ UNCHANGED <<constants, cerr>>
    /\ UNCHANGED <<function_type, scope_depth, emitted, enclosing>>
    /\ UNCHANGED vmvars

\* the initializer '= <number>'
number ==
    /\ cstatus = "initializer"
    /\ Len(emitted) < MaxCode
    /\ previous' = Token("Number", <<>>)
    /\ constants' = Append(constants, Number(1))
    /\ emitted' = emit_bytes(emitted, OpConstant, identifier_constant(constants), <<>>)
    /\ cstatus' = "semicolon"
    /\ UNCHANGED <<function_type, locals, scope_depth, enclosing, global, cerr>>
    /\ UNCHANGED vmvars

\* a use of a variable that no '=' follows: as the initializer of a
\* declaration, or as the expression of a statement
named_variable(name) ==
    /\ cstatus \in {"declaration", "initializer"}
    /\ Len(emitted) < MaxCode
    /\ previous' = Token("Identifier", name)
    /\ LET arg == resolve_local(locals, name) IN
       IF arg.error # ""
       THEN /\ CompileError(arg.error)
            /\ UNCHANGED <<emitted, constants>>
       ELSE /\ IF arg.slot # -1
               THEN /\ emitted' = emit_bytes(emitted, OpGetLocal, arg.slot, <<>>)
                    /\ UNCHANGED constants
               ELSE /\ constants' = Append(constants, LitString(name))
                    /\ emitted' = emit_bytes(emitted, OpGetGlobal,
                                             identifier_constant(constants), name)
            /\ cstatus' = IF cstatus = "initializer" THEN "semicolon" ELSE cstatus
            /\ UNCHANGED cerr
    /\ UNCHANGED <<function_type, locals, scope_depth, enclosing, global>>
    /\ UNCHANGED vmvars

\* the rest of var_declaration: nil when there is no initializer, ';', and
\* the variable is defined
define_variable ==
    /\ cstatus \in {"initializer", "semicolon"}
    /\ LET code == IF cstatus = "initializer"
                   THEN emit_byte(emitted, OpNil) ELSE emitted
       IN
       /\ Len(code) + (IF scope_depth > 0 THEN 0 ELSE 1) <= MaxCode
       /\ IF scope_depth > 0
          THEN /\ locals' = mark_initialized(locals, scope_depth)
               /\ emitted' = code
          ELSE /\ emitted' = emit_bytes(code, OpDefineGlobal, global,
                                        constants[global + 1].s)
               /\ UNCHANGED locals
    /\ previous' = Token("Semicolon", <<>>)
    /\ cstatus' = "declaration"
    /\ UNCHANGED <<function_type, scope_depth, constants, enclosing, global, cerr>>
    /\ UNCHANGED vmvars

\* fun_declaration at the top level up to '(': the name is a global, and
\* compile_function pushes the CompilerState of the function, with its own
\* locals and chunk, and opens the scope of the parameters
CompilerState(ft, ls, depth, code, pool, name_constant) ==
    [function_type |-> ft, locals |-> ls, scope_depth |-> depth, emitted |-> code,
     constants |-> pool, global |-> name_constant]

compile_function(name) ==
    /\ cstatus = "declaration"
    /\ function_type.ty = "Script"
    /\ scope_depth = 0
    /\ Len(emitted) + 2 <= MaxCode
    /\ previous' = Token("LeftParen", <<>>)
    /\ enclosing' = Append(enclosing,
                           CompilerState(function_type, locals, scope_depth, emitted,
                                         Append(constants, LitString(name)),
                                         identifier_constant(constants)))
    /\ global' = 0
    /\ function_type' = [ty |-> "Function", arity |-> 0]
    /\ locals' = <<>>
    /\ emitted' = <<>>
    /\ constants' = <<>>
    /\ scope_depth' = 1
    /\ cstatus' = "parameters"
    /\ UNCHANGED cerr
    /\ UNCHANGED vmvars

\* compile_function, one round of the parameter loop: the arity is counted,
\* `fun_obj.arity += 1` on an arity of eight bits: past 255 the addition
\* panics in a build with overflow checks and wraps in a build without
IncrementArity(arity) ==
    IF arity + 1 > 255
    THEN {[panic |-> TRUE, arity |-> arity],
          [panic |-> FALSE, arity |-> (arity + 1) % 256]}
    ELSE {[panic |-> FALSE, arity |-> arity + 1]}

\* compile_function: the check made on the arity after it was incremented
TooManyParameters(arity) == arity > 255

\* the name is declared as a local and defined at once
parameter(name) ==
    /\ cstatus = "parameters"
    /\ Len(locals) < MaxSlots
    /\ \E incremented \in IncrementArity(function_type.arity) :
       LET arity == incremented.arity
           declared == declare_local_variable(locals, name, scope_depth)
           added == add_local_variable(locals, name)
       IN
       IF incremented.panic
       THEN /\ cstatus' = "panic"
            /\ UNCHANGED <<function_type, locals, previous, cerr>>
       ELSE IF TooManyParameters(arity)
       THEN /\ CompileError("Can't have more than 255 parameters")
            /\ UNCHANGED <<function_type, locals, previous>>
       ELSE /\ function_type' = [function_type EXCEPT !.arity = arity]
            /\ previous' = Token("Identifier", name)
            /\ IF declared # ""
               THEN /\ CompileError(declared)
                    /\ UNCHANGED locals
               ELSE IF added # ""
               THEN /\ CompileError(added)
                    /\ UNCHANGED locals
               ELSE /\ locals' = mark_initialized(Append(locals, Local(name, -1)),
                                                  scope_depth)
                    /\ UNCHANGED <<cstatus, cerr>>
    /\ UNCHANGED <<scope_depth, emitted, constants, enclosing, global>>
    /\ UNCHANGED vmvars

\* compile_function after the parameters: ')' and '{' are consumed and the
\* body is compiled as a block in the scope of the parameters
function_body ==
    /\ cstatus = "parameters"
    /\ previous' = Token("LeftBrace", <<>>)
    /\ cstatus' = "declaration"
    /\ UNCHANGED <<function_type, locals, scope_depth, emitted, constants, enclosing,
                   global, cerr>>
    /\ UNCHANGED vmvars

\* the function object end_compiler returns for the state being compiled
FunctionValue(name, arity, code, pool) ==
    [t |-> "function", name |-> name, arity |-> arity, code |-> code, constants |-> pool]

\* the index make_constant returns, taken to be that of another constant of
\* the enclosing chunk
FunctionConstantShared(pool) == IF pool = <<>> THEN 0 ELSE Len(pool) - 1

\* make_constant(function_object) on the pool of the enclosing chunk
FunctionConstant(pool) == identifier_constant(pool)

\* compile_function from the '}' of the body on: end_compiler emits NIL,
\* RETURN into the function's chunk and pops its CompilerState; the function
\* is made a constant of the chunk that is current again and CONSTANT is
\* emitted; fun_declaration's define_variable(global) follows
end_function ==
    /\ cstatus = "declaration"
    /\ function_type.ty = "Function"
    /\ scope_depth = 1
    /\ enclosing # <<>>
    /\ LET outer == enclosing[Len(enclosing)]
           name == outer.constants[outer.global + 1].s
           function_object ==
               FunctionValue(name, function_type.arity,
                             emit_byte(emit_byte(emitted, OpNil), OpReturn), constants)
           constant == FunctionConstant(outer.constants)
       IN /\ enclosing' = Front(enclosing)
          /\ function_type' = outer.function_type
          /\ locals' = outer.locals
          /\ scope_depth' = outer.scope_depth
          /\ global' = outer.global
          /\ constants' = Append(outer.constants, function_object)
          /\ emitted' = emit_bytes(emit_bytes(outer.emitted, OpConstant, constant, <<>>),
                                   OpDefineGlobal, outer.global, name)
    /\ previous' = Token("RightBrace", <<>>)
    /\ UNCHANGED <<cstatus, cerr>>
    /\ UNCHANGED vmvars

\* the expression statement `name();` at the top level, after a function
\* declaration: named_variable, call with no argument, POP
call_statement(name) ==
    /\ cstatus = "declaration"
    /\ function_type.ty = "Script"
    /\ scope_depth = 0
    /\ emitted # <<>>
    /\ emitted[Len(emitted)].op = OpDefineGlobal
    /\ constants[Len(constants)].t = "function"
    /\ constants' = Append(constants, LitString(name))
    /\ emitted' = emit_byte(emit_bytes(emit_bytes(emitted, OpGetGlobal,
                                                  identifier_constant(constants), name),
                                       OpCall, 0, <<>>),
                            OpPop)
    /\ previous' = Token("Semicolon", <<>>)
    /\ UNCHANGED <<function_type, locals, scope_depth, enclosing, global, cstatus, cerr>>
    /\ UNCHANGED vmvars

CompilerNext ==
    \/ begin_scope
    \/ end_scope
    \/ \E name \in Identifiers : parse_variable(name)
    \/ number
    \/ \E name \in Identifiers : named_variable(name)
    \/ define_variable
    \/ \E name \in Identifiers : compile_function(name)
    \/ \E name \in Identifiers : parameter(name)
    \/ function_body

CompilerSpec == Init /\ [][CompilerNext]_vars

\* declarations at the top level, among them functions, and a call
FunNext ==
    \/ CompilerNext
    \/ end_function
    \/ \E name \in Identifiers : call_statement(name)

FunSpec == Init /\ [][FunNext]_vars

-----------------------------------------------------------------------------
(* The compiler: expressions *)

\* Precedence as u8
PrecedenceOf(name) ==
    CASE name = "None" -> 0
      [] name = "Assignment" -> 1
      [] name = "Term" -> 6
      [] name = "Factor" -> 7
      [] name = "Unary" -> 8

\* ParseRule::get_parse_rule for the token types of the statements below
ParseRule(ty) ==
    CASE ty = "LeftParen" ->
             [prefix |-> "grouping", infix |-> "", precedence |-> PrecedenceOf("None")]
      [] ty = "Star" ->
             [prefix |-> "", infix |-> "binary", precedence |-> PrecedenceOf("Factor")]
      [] ty = "Plus" ->
             [prefix |-> "", infix |-> "binary", precedence |-> PrecedenceOf("Term")]
      [] ty = "Identifier" ->
             [prefix |-> "variable", infix |-> "", precedence |-> PrecedenceOf("None")]
      [] ty = "Number" ->
             [prefix |-> "number", infix |-> "", precedence |-> PrecedenceOf("None")]
      [] OTHER ->
             [prefix |-> "", infix |-> "", precedence |-> PrecedenceOf("None")]

\* Parser::current when the tokens from toks[pos] on are left to consume
CurrentToken(toks, pos) ==
    IF pos <= Len(toks) THEN toks[pos] ELSE Token("Eof", <<>>)

\* the state of a compilation: the error raised ("" for none), the index of
\* the current token and the code emitted
Parsed(error, pos, code) == [error |-> error, pos |-> pos, code |-> code]

\* the instruction binary emits for an operator
BinaryInstruction(ty) == IF ty = "Star" THEN OpMultiply ELSE OpAdd

RECURSIVE parse_precedence(_, _, _, _)
RECURSIVE InfixLoop(_, _, _, _, _)

\* expression
expression(toks, r, ls) == parse_precedence(toks, r, PrecedenceOf("Assignment"), ls)

\* variable and named_variable for the identifier consumed last
variable(toks, r, can_assign, ls) ==
    LET name == toks[r.pos - 1].name
        arg == resolve_local(ls, name)
    IN IF arg.error # "" THEN Parsed(arg.error, r.pos, r.code)
       ELSE IF can_assign /\ CurrentToken(toks, r.pos).ty = "Equal"
       THEN LET value == expression(toks, Parsed("", r.pos + 1, r.code), ls)
            IN IF value.error # "" THEN value
               ELSE Parsed("", value.pos,
                           IF arg.slot # -1
                           THEN emit_bytes(value.code, OpSetLocal, arg.slot, <<>>)
                           ELSE emit_bytes(value.code, OpSetGlobal, -1, name))
       ELSE Parsed("", r.pos,
                   IF arg.slot # -1
                   THEN emit_bytes(r.code, OpGetLocal, arg.slot, <<>>)
                   ELSE emit_bytes(r.code, OpGetGlobal, -1, name))

\* grouping: '(' was consumed
grouping(toks, r, ls) ==
    LET inner == expression(toks, r, ls)
    IN IF inner.error # "" THEN inner
       ELSE IF CurrentToken(toks, inner.pos).ty = "RightParen"
       THEN Parsed("", inner.pos + 1, inner.code)
       ELSE Parsed("Expected ')' after expression.", inner.pos, inner.code)

\* binary: the operator toks[r.pos - 1] was consumed
binary(toks, r, ls) ==
    LET operator == toks[r.pos - 1].ty
        right == parse_precedence(toks, r, ParseRule(operator).precedence + 1, ls)
    IN IF right.error # "" THEN right
       ELSE Parsed("", right.pos, emit_byte(right.code, BinaryInstruction(operator)))

\* parse_precedence: advance, the prefix rule of the token consumed, then
\* the loop over the infix operators
parse_precedence(toks, r, precedence, ls) ==
    LET rule == ParseRule(CurrentToken(toks, r.pos).ty)
        advanced == Parsed("", r.pos + 1, r.code)
        can_assign == precedence <= PrecedenceOf("Assignment")
        prefix ==
            CASE rule.prefix = "grouping" -> grouping(toks, advanced, ls)
              [] rule.prefix = "variable" -> variable(toks, advanced, can_assign, ls)
              [] rule.prefix = "number" ->
                     Parsed("", advanced.pos, emit_byte(advanced.code, OpConstant))
    IN IF rule.prefix = "" THEN Parsed("Expected expression.", advanced.pos, r.code)
       ELSE IF prefix.error # "" THEN prefix
       ELSE InfixLoop(toks, prefix, precedence, can_assign, ls)

\* parse_precedence: the while loop; an '=' found after an infix rule is the
\* error "Invalid assignment target"
InfixLoop(toks, r, precedence, can_assign, ls) ==
    IF precedence > ParseRule(CurrentToken(toks, r.pos).ty).precedence THEN r
    ELSE LET advanced == Parsed("", r.pos + 1, r.code)
             infix == IF ParseRule(toks[r.pos].ty).infix = "binary"
                      THEN binary(toks, advanced, ls)
                      ELSE advanced
         IN IF infix.error # "" THEN infix
            ELSE IF can_assign /\ CurrentToken(toks, infix.pos).ty = "Equal"
            THEN Parsed("Invalid assignment target", infix.pos + 1, infix.code)
            ELSE InfixLoop(toks, infix, precedence, can_assign, ls)

\* the tokens an expression statement is made of
ExpressionTokens ==
    {Token("Number", <<>>), Token("Identifier", <<"a">>), Token("Star", <<>>),
     Token("Equal", <<>>), Token("LeftParen", <<>>), Token("RightParen", <<>>)}

\* the statements compiled: up to MaxTokens tokens and the ';'
Statements ==
    UNION {{toks \o <<Token("Semicolon", <<>>)>> : toks \in [1..n -> ExpressionTokens]} :
              n \in 1..MaxTokens}

\* an expression statement: expression, ';' consumed, OpPop emitted; it is
\* the first statement of the source or of a block, or follows the
\* declaration of a local of the block
expression_statement(toks) ==
    /\ cstatus = "declaration"
    /\ Len(emitted) <= 1
    /\ scope_depth <= 1
    /\ source' = [kind |-> "statement", tokens |-> toks]
    /\ LET r == expression(toks, Parsed("", 1, emitted), locals)
       IN /\ previous' = CurrentToken(toks, r.pos - 1)
          /\ IF r.error # ""
             THEN CompileError(r.error) /\ emitted' = r.code
             ELSE IF CurrentToken(toks, r.pos).ty # "Semicolon"
             THEN CompileError("Expected ';' after expression.") /\ emitted' = r.code
             ELSE /\ emitted' = emit_byte(r.code, OpPop)
                  /\ cstatus' = "statement"
                  /\ UNCHANGED cerr
    /\ UNCHANGED <<function_type, locals, scope_depth, global>>
    /\ UNCHANGED <<stack, frames, objects, heap, globals, status, err, inputs, line,
                   constants, enclosing>>

\* declarations of locals and expression statements
ParseNext ==
    \/ begin_scope
    \/ \E name \in Identifiers : parse_variable(name)
    \/ define_variable
    \/ \E toks \in Statements : expression_statement(toks)

ParseSpec == Init /\ [][ParseNext]_vars

-----------------------------------------------------------------------------
(* The compiler: the limits of one-byte and two-byte operands.  Each action  *)
(* applies one function of the compiler to a chunk, a locals list or a       *)
(* counter of the size given; source records what it was applied to.         *)

\* Chunk::add_constant when the pool holds count constants: the value is
\* pushed and constants.len() - 1 is returned
add_constant(count) == (count + 1) - 1

\* the index returned without the check, as `constant as u8` converts it
MakeConstantUnchecked(count) ==
    [error |-> "", constant |-> add_constant(count) % 256]

\* make_constant when the pool holds count constants
make_constant(count) ==
    LET constant == add_constant(count)
    IN IF constant > 255
       THEN [error |-> "Too many constants in one chunk", constant |-> 0]
       ELSE [error |-> "", constant |-> constant % 256]

\* what adds a constant, and the instruction that takes its index:
\* emit_constant for a number or string literal, named_variable through
\* identifier_constant, compile_function
ConstantUses ==
    [number |-> OpConstant, string |-> OpConstant, identifier |-> OpGetGlobal,
     function |-> OpConstant]

\* one constant is added to a chunk that holds count constants
constant_added(count, use) ==
    /\ cstatus = "declaration"
    /\ source' = [kind |-> "constant", n |-> count, m |-> 0, use |-> use]
    /\ LET made == make_constant(count)
       IN IF made.error # ""
          THEN CompileError(made.error) /\ emitted' = <<>>
          ELSE /\ emitted' = <<Instruction(ConstantUses[use], made.constant, <<>>)>>
               /\ cstatus' = "statement"
               /\ UNCHANGED cerr
    /\ UNCHANGED <<function_type, locals, scope_depth, previous, global>>
    /\ UNCHANGED <<stack, frames, objects, heap, globals, status, err, inputs, line,
                   constants, enclosing>>

\* the lengths of the code a jump goes over: near 0, near one byte and
\* near two bytes
Distances == (0..3) \cup (253..258) \cup (65530..65540)

\* the offsets in the code a jump instruction is emitted at
JumpOffsets == {1, 2, 1000}

\* patch_jump(offset) when distance bytes were emitted after the placeholders
jump_patched(offset, distance) ==
    /\ cstatus = "declaration"
    /\ source' = [kind |-> "patch_jump", n |-> offset, m |-> distance]
    /\ LET patched == patch_jump(offset + 2 + distance, offset)
       IN IF patched.error # ""
          THEN CompileError(patched.error) /\ emitted' = <<>>
          ELSE /\ emitted' = patched.bytes
               /\ cstatus' = "statement"
               /\ UNCHANGED cerr
    /\ UNCHANGED <<function_type, locals, scope_depth, previous, global>>
    /\ UNCHANGED <<stack, frames, objects, heap, globals, status, err, inputs, line,
                   constants, enclosing>>

\* emit_loop(loop_start) when body bytes were emitted since loop_start
loop_emitted(loop_start, body) ==
    /\ cstatus = "declaration"
    /\ source' = [kind |-> "emit_loop", n |-> loop_start, m |-> body]
    /\ LET looped == emit_loop(loop_start + body, loop_start)
       IN IF looped.error # ""
          THEN CompileError(looped.error) /\ emitted' = <<>>
          ELSE /\ emitted' = looped.bytes
               /\ cstatus' = "statement"
               /\ UNCHANGED cerr
    /\ UNCHANGED <<function_type, locals, scope_depth, previous, global>>
    /\ UNCHANGED <<stack, frames, objects, heap, globals, status, err, inputs, line,
                   constants, enclosing>>

\* n locals of a block, with names of their own
LocalsOf(n) == [i \in 1..n |-> Local(<<"v">> \o Digits(i), 1)]

\* { var v1; .. var vn; var a; a = a; }  from the declaration of a on, in a
\* function whose locals are the n before it
local_added(n) ==
    /\ cstatus = "declaration"
    /\ source' = [kind |-> "local", n |-> n, m |-> 0]
    /\ previous' = Token("Identifier", <<"a">>)
    /\ scope_depth' = 1
    /\ LET ls == LocalsOf(n)
           declared == declare_local_variable(ls, <<"a">>, 1)
           added == add_local_variable(ls, <<"a">>)
           defined == mark_initialized(Append(ls, Local(<<"a">>, -1)), 1)
           arg == resolve_local(defined, <<"a">>)
       IN IF declared # ""
          THEN CompileError(declared) /\ locals' = ls /\ emitted' = <<>>
          ELSE IF added # ""
          THEN CompileError(added) /\ locals' = ls /\ emitted' = <<>>
          ELSE /\ locals' = defined
               /\ emitted' = <<Instruction(OpNil, -1, <<>>),
                               Instruction(OpGetLocal, arg.slot % 256, <<>>),
                               Instruction(OpSetLocal, arg.slot % 256, <<>>),
                               Instruction(OpPop, -1, <<>>)>>
               /\ cstatus' = "statement"
               /\ UNCHANGED cerr
    /\ UNCHANGED <<function_type, global>>
    /\ UNCHANGED <<stack, frames, objects, heap, globals, status, err, inputs, line,
                   constants, enclosing>>

\* fun f(v1, .., vn, a  from the parameter a on
parameter_added(n) ==
    /\ cstatus = "declaration"
    /\ source' = [kind |-> "parameter", n |-> n, m |-> 0]
    /\ scope_depth' = 1
    /\ \E incremented \in IncrementArity(n) :
       LET ls == LocalsOf(n)
           arity == incremented.arity
           declared == declare_local_variable(ls, <<"a">>, 1)
           added == add_local_variable(ls, <<"a">>)
       IN IF incremented.panic
          THEN /\ cstatus' = "panic"
               /\ function_type' = [ty |-> "Function", arity |-> n]
               /\ locals' = ls
               /\ UNCHANGED <<previous, cerr>>
          ELSE IF TooManyParameters(arity)
          THEN /\ CompileError("Can't have more than 255 parameters")
               /\ function_type' = [ty |-> "Function", arity |-> n]
               /\ locals' = ls
               /\ UNCHANGED previous
          ELSE /\ function_type' = [ty |-> "Function", arity |-> arity]
               /\ previous' = Token("Identifier", <<"a">>)
               /\ IF declared # ""
                  THEN CompileError(declared) /\ locals' = ls
                  ELSE IF added # ""
                  THEN CompileError(added) /\ locals' = ls
                  ELSE /\ locals' = mark_initialized(Append(ls, Local(<<"a">>, -1)), 1)
                       /\ cstatus' = "parameters"
                       /\ UNCHANGED cerr
    /\ UNCHANGED <<emitted, global>>
    /\ UNCHANGED <<stack, frames, objects, heap, globals, status, err, inputs, line,
                   constants, enclosing>>

\* arguments_list: the check made after each argument's expression
TooManyArguments(arg_count) == arg_count = 255

\* f(e1, .., en, e)  from the argument e on, to the CALL call emits
argument_added(n) ==
    /\ cstatus = "declaration"
    /\ source' = [kind |-> "argument", n |-> n, m |-> 0]
    /\ previous' = Token("RightParen", <<>>)
    /\ IF TooManyArguments(n)
       THEN CompileError("Can't have more than 255 arguments.") /\ emitted' = <<>>
       ELSE /\ emitted' = <<Instruction(OpCall, (n + 1) % 256, <<>>)>>
            /\ cstatus' = "statement"
            /\ UNCHANGED cerr
    /\ UNCHANGED <<function_type, locals, scope_depth, global>>
    /\ UNCHANGED <<stack, frames, objects, heap, globals, status, err, inputs, line,
                   constants, enclosing>>

LimitNext ==
    \/ \E count \in 0..256, use \in DOMAIN ConstantUses : constant_added(count, use)
    \/ \E offset \in JumpOffsets, distance \in Distances : jump_patched(offset, distance)
    \/ \E loop_start \in JumpOffsets, body \in Distances : loop_emitted(loop_start, body)
    \/ \E n \in 0..UINT8_COUNT : local_added(n)
    \/ \E n \in 0..255 : parameter_added(n)
    \/ \E n \in 0..255 : argument_added(n)

LimitSpec == Init /\ [][LimitNext]_vars

-----------------------------------------------------------------------------
(* Properties of the virtual machine *)

\* the function constants of the chunks of the live function objects
ConstantPointers ==
    UNION {{Obj(heap[i].base + c.k) :
               c \in {d \in Range(FunctionsOf(heap[i].prog)[heap[i].k].constants) :
                         d.t = "fn"}} :
           i \in {j \in DOMAIN heap : heap[j].ty = "Function" /\ heap[j].frees = 0}}

\* every value the VM can still read: stack slots, global bindings, constants
References == Range(stack) \cup {globals[n] : n \in Names} \cup ConstantPointers

NoDanglingReference == \A v \in References : ~Dangling(heap, v)

\* a RETURN of a called function is about to execute
ReturnsFromCall ==
    status = "running" /\ opcode = OpReturn /\ Len(frames) > 1 /\ stack # <<>>

\* C1: when RETURN executes in a frame that is not the top-level one, the
\* stack height afterwards is the height just before the callee was pushed,
\* plus one (the result): everything from the callee's slot upward is gone.
\* starting_offset is the index of the first argument, one above the callee.
C1_ReturnRestoresHeight ==
    [][ReturnsFromCall => Len(stack') = current_frame.starting_offset]_vars

\* C2: after a program run followed by reset_vm, every heap object that was
\* created has been freed exactly once: none twice, none still allocated.
C2_FreedExactlyOnce ==
    (status = "idle" /\ inputs > 0) =>
        \A i \in DOMAIN heap : heap[i].frees = 1

\* C3: an ADD that concatenates leaves no dangling reference: if no stack
\* slot, global binding or constant referred to a freed object before the
\* ADD, none does after it.
C3_ConcatLeavesNoDangling ==
    [][(status = "running" /\ opcode = OpAdd /\ NoDanglingReference)
          => NoDanglingReference']_vars

\* C4: after reset_vm (the REPL is ready for its next input) no binding of
\* the globals table refers to a freed heap object; the natives clock and
\* println in particular stay callable.
C4_GlobalsLiveAfterReset ==
    status = "idle" => \A n \in Names : ~Dangling(heap, globals[n])

\* C5: whenever an instruction raises a runtime error, run() returns the
\* error to the host with the value stack, the frame stack and the object
\* list empty.
C5_ErrorReturnsClean ==
    [][(status = "running" /\ err'.msg # "")
          => (status' = "error" /\ stack' = <<>> /\ frames' = <<>>
                /\ objects' = <<>>)]_vars

\* C6: when run() returns Ok the value stack is empty.
C6_StackEmptyAtOk == status = "ok" => stack = <<>>

\* a CALL whose callee is a function object is about to execute
CallsFunction ==
    /\ status = "running"
    /\ opcode = OpCall
    /\ Len(stack) - ByteAt(1) - 1 >= 0
    /\ is_function(heap, stack[Len(stack) - ByteAt(1)])

CalleeArity == as_function_ref(heap, stack[Len(stack) - ByteAt(1)]).arity

\* C7: the frame stack never holds more than FRAMES_MAX (64) frames; a CALL
\* on a function made while 64 frames are active raises "Stack overflow."
\* and pushes no frame; a program that recurses without bound ends in that
\* error.
C7_FrameLimit ==
    /\ [](Len(frames) <= FRAMES_MAX)
    /\ [][(CallsFunction /\ CalleeArity = ByteAt(1) /\ Len(frames) = FRAMES_MAX)
             => (err'.msg = "Stack overflow." /\ frames' = <<>>)]_vars
    /\ ((status = "running" /\ source.kind = "recurse")
           ~> (status = "error" /\ err.msg = "Stack overflow."))

\* the unbounded recursion was stopped with 64 frames active
C7_Witness ==
    /\ status = "error"
    /\ source.kind = "recurse"
    /\ err.msg = "Stack overflow."
    /\ Len(err.trace) = FRAMES_MAX

\* C8: a CALL argc on a function whose arity differs from argc raises
\* "Expected <arity> arguments but got <argc>." and pushes no frame, also
\* when FRAMES_MAX frames are active (the arity is checked first).
C8_ArityCheckedFirst ==
    [][(CallsFunction /\ CalleeArity # ByteAt(1))
          => (/\ err'.msg = "Expected {arity} arguments but got {arg_count}."
              /\ err'.a = CalleeArity
              /\ err'.b = ByteAt(1)
              /\ frames' = <<>>)]_vars

\* a call with the wrong argument count was rejected with 64 frames active
C8_Witness ==
    /\ status = "error"
    /\ err.msg = "Expected {arity} arguments but got {arg_count}."
    /\ err.a # err.b
    /\ Len(err.trace) = FRAMES_MAX

-----------------------------------------------------------------------------
(* Properties of the compiler *)

\* the slot of the local declared last among those named name
NewestSlot(ls, name) ==
    LET matches == {i \in 1..Len(ls) : ls[i].name = name} IN
    (CHOOSE j \in matches : \A k \in matches : k <= j) - 1

\* a statement's use of a name was compiled to a read of a local slot
ReadsLocal ==
    /\ cstatus = "declaration"
    /\ Len(emitted') = Len(emitted) + 1
    /\ emitted'[Len(emitted')].op = OpGetLocal

\* C9: when several locals of the function being compiled have the same
\* name, a use of the name resolves to the slot of the one declared last.
C9_ResolvesNewest ==
    [][ReadsLocal =>
          emitted'[Len(emitted')].slot = NewestSlot(locals, previous'.name)]_vars

\* the initializer of a local declaration is being compiled
InLocalInitializer == cstatus = "initializer" /\ scope_depth > 0

\* C10: while the initializer of a local declaration is compiled the new
\* local has depth -1; a read of its name inside the initializer is the
\* compile error "Can't read local variable in its own initializer", also
\* when an enclosing scope declares the name; the local gets the current
\* scope depth only when the declaration is complete.
C10_OwnInitializer ==
    /\ [](InLocalInitializer => locals[Len(locals)].depth = -1)
    /\ [][(/\ InLocalInitializer
           /\ previous'.ty = "Identifier"
           /\ previous'.name = locals[Len(locals)].name)
             => (/\ cstatus' = "error"
                 /\ cerr' = "Can't read local variable in its own initializer")]_vars
    /\ [][(InLocalInitializer /\ cstatus' = "declaration")
             => locals'[Len(locals')].depth = scope_depth]_vars

\* a name is being declared as a local: by a var declaration inside a scope,
\* or as a parameter
DeclaresLocal ==
    \/ /\ cstatus = "declaration"
       /\ scope_depth > 0
       /\ previous'.ty = "Identifier"
       /\ cstatus' \in {"initializer", "error"}
    \/ /\ cstatus = "parameters"
       /\ previous'.ty = "Identifier"

\* a local of the current scope depth has the name
DeclaredInScope(name) ==
    \E i \in 1..Len(locals) :
        locals[i].name = name /\ locals[i].depth = scope_depth

\* C11: declaring a local whose name is that of a local of the same scope
\* depth of the function (a parameter included) is the compile error
\* "Already a variable with this name in this scope."; declaring the name of
\* a local of an enclosing scope only is accepted and adds a new slot.
C11_Redeclaration ==
    /\ [][(DeclaresLocal /\ DeclaredInScope(previous'.name))
             => (/\ cstatus' = "error"
                 /\ cerr' = "Already a variable with this name in this scope."
                 /\ locals' = locals)]_vars
    /\ [][(DeclaresLocal /\ ~DeclaredInScope(previous'.name))
             => (/\ cstatus' # "error"
                 /\ Len(locals') = Len(locals) + 1
                 /\ SubSeq(locals', 1, Len(locals)) = locals
                 /\ locals'[Len(locals')].name = previous'.name)]_vars

\* the body of a function redeclared a parameter
C11_Witness ==
    /\ cstatus = "error"
    /\ cerr = "Already a variable with this name in this scope."
    /\ function_type.ty = "Function"
    /\ function_type.arity = 1
    /\ Len(locals) = 1
    /\ locals[1].name = previous.name

-----------------------------------------------------------------------------
(* Properties of the operators *)

\* the operand expression e is truthy in Lox: it is neither nil nor false
Truthy(e) == OperandNames[e] \notin {"nil", "false"}

\* v is the value operand expression e evaluates to, in heap h
IsValueOf(h, v, e) ==
    CASE OperandNames[e] = "nil" -> v = Nil
      [] OperandNames[e] = "false" -> v = Bool(FALSE)
      [] OperandNames[e] = "true" -> v = Bool(TRUE)
      [] OperandNames[e] = "0" -> v = Number(0)
      [] OperandNames[e] = "1" -> v = Number(1)
      [] OperandNames[e] = "empty" -> v = LitString(<<>>)
      [] OperandNames[e] = "a" -> v = LitString(<<"a">>)
      [] OperandNames[e] = "heap" ->
             is_object(v) /\ h[v.p].ty = "String" /\ h[v.p].s = <<"a">>
      [] OperandNames[e] = "fn" -> is_function(h, v)
      [] OperandNames[e] = "native" -> is_native(h, v)

\* the right operand of the and/or of the program is skipped
Skipped == IF source.kind = "and" THEN ~Truthy(source.n) ELSE Truthy(source.n)

\* C12: in `a and b` the code of b runs iff a is truthy, in `a or b` iff a is
\* falsey; when b = (x = 1) is skipped its assignment does not happen (x
\* keeps 0) and the expression has the value of a, otherwise x and the
\* expression are 1.
C12_ShortCircuit ==
    /\ [](status = "ok" /\ source.kind \in {"and", "or"}
            => IF Skipped
               THEN /\ globals[<<"x">>] = Number(0)
                    /\ IsValueOf(heap, globals[<<"r">>], source.n)
               ELSE /\ globals[<<"x">>] = Number(1)
                    /\ globals[<<"r">>] = Number(1))
    /\ [][source.kind \in {"and", "or"} /\ Running(OpSetGlobal) => ~Skipped]_vars

\* `"a" + "" or (x = 1)` has ended: x is 0 and r is the heap string
C12_Witness ==
    /\ status = "ok"
    /\ source.kind = "or"
    /\ OperandNames[source.n] = "heap"
    /\ globals[<<"x">>] = Number(0)
    /\ is_object(globals[<<"r">>])

\* C13: NOT applied to any value raises no runtime error: it pops the value
\* and pushes true iff the value is nil or false.
C13_NotOnAnyValue ==
    [][Running(OpNot) /\ stack # <<>>
          => /\ status' = "running"
             /\ stack' = Append(pop(stack), Bool(is_falsey(stack[Len(stack)])))]_vars

\* the kind of a value: nil, bool, num, str (literal or heap string),
\* Function or Native
KindOf(h, v) ==
    IF is_object(v) THEN (IF h[v.p].ty = "String" THEN "str" ELSE h[v.p].ty)
    ELSE v.t

\* the characters of a string value, literal or heap
ContentOf(h, v) == IF is_object(v) THEN h[v.p].s ELSE v.s

\* C14: EQUAL pushes true for two strings iff their contents are equal,
\* whether each is a constant-pool literal or a heap string made at run time;
\* for two values of different kinds it pushes false.
C14_StringEquality ==
    [][Running(OpEqual) /\ Len(stack) >= 2
          => LET a == stack[Len(stack)]
                 b == stack[Len(stack) - 1]
             IN /\ KindOf(heap, a) = "str" /\ KindOf(heap, b) = "str"
                     => stack' = Append(pop(pop(stack)),
                                        Bool(ContentOf(heap, a) = ContentOf(heap, b)))
                /\ KindOf(heap, a) # KindOf(heap, b)
                     => stack' = Append(pop(pop(stack)), Bool(FALSE))]_vars

\* the instruction raises a runtime error and pushes no value
RaisesRuntimeError ==
    /\ status' \in {"error", "crashed"}
    /\ err'.msg # ""
    /\ stack' = <<>>

\* C15: an arithmetic or comparison instruction on operands of a type it does
\* not admit raises a runtime error instead of pushing a value: NEGATE admits
\* a number; SUB, MUL, DIV, GREATER, LESS admit two numbers; ADD raises the
\* error whenever an operand is neither a number nor a string.
C15_OperandTypes ==
    /\ [][Running(OpNegate) /\ stack # <<>> /\ ~is_number(stack[Len(stack)])
            => RaisesRuntimeError]_vars
    /\ [][(/\ status = "running"
           /\ opcode \in BinaryOps
           /\ Len(stack) >= 2
           /\ LET right == stack[Len(stack)]
                  left == stack[Len(stack) - 1]
              IN IF opcode = OpAdd
                 THEN \E v \in {left, right} :
                         ~is_number(v) /\ KindOf(heap, v) # "str"
                 ELSE ~(is_number(left) /\ is_number(right)))
             => RaisesRuntimeError]_vars

\* the name GET_GLOBAL, SET_GLOBAL or DEFINE_GLOBAL is about to use
GlobalName == as_string(heap, read_constant)

\* C16: GET_GLOBAL and SET_GLOBAL on a name without a binding raise the
\* runtime error "Undefined variable '<name>'" and leave the globals table as
\* it is; a name gets a binding only through DEFINE_GLOBAL of that name.
C16_UndefinedGlobal ==
    /\ [][(/\ Running(OpGetGlobal) \/ (Running(OpSetGlobal) /\ stack # <<>>)
           /\ globals[GlobalName] = Absent)
             => /\ status' \in {"error", "crashed"}
                /\ err'.msg = "Undefined variable '{name}'"
                /\ err'.name = GlobalName
                /\ globals' = globals]_vars
    /\ [][\A n \in Names :
              globals[n] = Absent /\ globals'[n] # Absent
                  => Running(OpDefineGlobal) /\ GlobalName = n]_vars

\* `u = 1;` has failed and u has no binding
C16_Witness ==
    /\ status = "error"
    /\ source.kind = "setglobal"
    /\ err.msg = "Undefined variable '{name}'"
    /\ err.name = <<"u">>
    /\ globals[<<"u">>] = Absent

-----------------------------------------------------------------------------
(* Properties of the expressions *)

\* the statement compiled: the tokens before the first '=' are an expression
\* that is not a lone identifier, and the '=' follows them
StrayEqual(toks) ==
    \E i \in 2..Len(toks) :
        /\ toks[i].ty = "Equal"
        /\ \A j \in 1..(i - 1) : toks[j].ty # "Equal"
        /\ LET target == expression(SubSeq(toks, 1, i - 1), Parsed("", 1, <<>>), <<>>)
           IN /\ target.error = ""
              /\ target.pos = i
        /\ ~(i = 2 /\ toks[1].ty = "Identifier")

\* C17: an '=' that follows an expression which is not an assignable variable
\* is rejected with the compile error "Invalid assignment target", and no
\* SET_LOCAL or SET_GLOBAL is emitted for it.
C17_InvalidAssignmentTarget ==
    (cstatus # "declaration" /\ source.kind = "statement" /\ StrayEqual(source.tokens))
        => /\ cstatus = "error"
           /\ cerr = "Invalid assignment target"
           /\ \A i \in 1..Len(emitted) : emitted[i].op \notin {OpSetLocal, OpSetGlobal}

-----------------------------------------------------------------------------
(* Properties of the operand limits *)

\* the operand read back from the two bytes of a jump instruction
ReadShort(bytes) == bytes[1] * 256 + bytes[2]

\* C18: a constant added to a chunk that holds fewer than 256 is accepted and
\* the one-byte operand emitted is its index in the pool; the 257th is the
\* compile error "Too many constants in one chunk"; this holds for a number
\* or string literal, a global variable name and a function declaration.
C18_ConstantLimit ==
    (source.kind = "constant" /\ cstatus # "declaration")
        => /\ source.n <= 255
                => /\ cstatus = "statement"
                   /\ emitted = <<Instruction(ConstantUses[source.use], source.n, <<>>)>>
           /\ source.n >= 256
                => /\ cstatus = "error"
                   /\ cerr = "Too many constants in one chunk"
                   /\ emitted = <<>>

\* the 256th constant of a chunk is a global variable name and GET_GLOBAL
\* takes the index 255
C18_Witness ==
    /\ source.kind = "constant"
    /\ source.use = "identifier"
    /\ source.n = 255
    /\ cstatus = "statement"
    /\ emitted[1].slot = 255

\* the distance patch_jump or emit_loop has to encode
DistanceToEncode ==
    IF source.kind = "patch_jump" THEN source.m ELSE source.m + 3

\* C19: patch_jump and emit_loop raise a compile error when the distance to
\* encode is greater than 65,535 and accept 65,535; the two bytes written
\* read back as the distance, never as the distance modulo 65,536.
C19_JumpLimit ==
    (source.kind \in {"patch_jump", "emit_loop"} /\ cstatus # "declaration")
        => /\ DistanceToEncode <= 65535
                => /\ cstatus = "statement"
                   /\ Len(emitted) = 2
                   /\ \A i \in 1..2 : emitted[i] \in 0..255
                   /\ ReadShort(emitted) = DistanceToEncode
           /\ DistanceToEncode > 65535
                => /\ cstatus = "error"
                   /\ cerr = IF source.kind = "patch_jump"
                             THEN "Too much code to jump over"
                             ELSE "Loop body too large"
                   /\ emitted = <<>>

\* a loop whose offset is exactly 65,535 is accepted
C19_Witness ==
    /\ source.kind = "emit_loop"
    /\ DistanceToEncode = 65535
    /\ cstatus = "statement"
    /\ emitted = <<255, 255>>

-----------------------------------------------------------------------------
(* The scanner: identifiers and reserved words *)

LetterChars == {"a", "c", "d", "e", "f", "h", "i", "l", "n", "o", "p", "r", "s", "t",
                "u", "v", "w", "F", "T"}

\* Scanner::is_alpha
is_alpha(c) == c \in LetterChars \/ c = "_"

\* char::is_ascii_digit
is_ascii_digit(c) == \E i \in 1..Len(DigitChars) : DigitChars[i] = c

\* &source[from..to], with the byte offsets of the code (from 0)
Slice(text, from, to) == SubSeq(text, from + 1, to)

\* Scanner::peek at offset current: None at the end of the source
peek(text, current) == IF current < Len(text) THEN text[current + 1] ELSE ""

\* the loop of Scanner::identifier: current after the last character of the lexeme
identifier(text, start) ==
    CHOOSE current \in (start + 1)..Len(text) :
        /\ \A i \in (start + 1)..(current - 1) : is_alpha(peek(text, i)) \/ is_ascii_digit(peek(text, i))
        /\ ~ (is_alpha(peek(text, current)) \/ is_ascii_digit(peek(text, current)))

check_keyword(text, start, current, start_arg, length, rest, ty) ==
    LET source_index_start == start + start_arg
        source_index_end == source_index_start + length
    IN IF /\ current - start = start_arg + length
          /\ Slice(text, source_index_start, source_index_end) = rest
       THEN ty
       ELSE "Identifier"

\* the arm of identifier_type that maps for and fun to the token type of false
FKeywordAsFalse(text, start, current) ==
    IF current - start > 1
    THEN LET second_char == peek(text, start + 1)
         IN CASE second_char = "a" -> check_keyword(text, start, current, 2, 3, <<"l", "s", "e">>, "False")
              [] second_char = "o" -> check_keyword(text, start, current, 2, 1, <<"r">>, "False")
              [] second_char = "u" -> check_keyword(text, start, current, 2, 1, <<"n">>, "False")
              [] OTHER -> "Identifier"
    ELSE "Identifier"

\* the arm 'f' of identifier_type
f_keyword(text, start, current) ==
    IF current - start > 1
    THEN LET second_char == peek(text, start + 1)
         IN CASE second_char = "a" -> check_keyword(text, start, current, 2, 3, <<"l", "s", "e">>, "False")
              [] second_char = "o" -> check_keyword(text, start, current, 2, 1, <<"r">>, "For")
              [] second_char = "u" -> check_keyword(text, start, current, 2, 1, <<"n">>, "Fun")
              [] OTHER -> "Identifier"
    ELSE "Identifier"

\* the arm 't' of identifier_type
t_keyword(text, start, current) ==
    IF current - start > 1
    THEN LET second_char == peek(text, start + 1)
         IN CASE second_char = "h" -> check_keyword(text, start, current, 2, 2, <<"i", "s">>, "This")
              [] second_char = "r" -> check_keyword(text, start, current, 2, 2, <<"u", "e">>, "True")
              [] OTHER -> "Identifier"
    ELSE "Identifier"

identifier_type(text, start, current) ==
    LET starting_char == peek(text, start)
    IN CASE starting_char = "a" -> check_keyword(text, start, current, 1, 2, <<"n", "d">>, "And")
         [] starting_char = "c" -> check_keyword(text, start, current, 1, 4, <<"l", "a", "s", "s">>, "Class")
         [] starting_char = "e" -> check_keyword(text, start, current, 1, 3, <<"l", "s", "e">>, "Else")
         [] starting_char = "f" -> f_keyword(text, start, current)
         [] starting_char = "i" -> check_keyword(text, start, current, 1, 1, <<"f">>, "If")
         [] starting_char = "n" -> check_keyword(text, start, current, 1, 2, <<"i", "l">>, "Nil")
         [] starting_char = "o" -> check_keyword(text, start, current, 1, 1, <<"r">>, "Or")
         [] starting_char = "p" -> check_keyword(text, start, current, 1, 4, <<"r", "i", "n", "t">>, "Print")
         [] starting_char = "r" -> check_keyword(text, start, current, 1, 5, <<"e", "t", "u", "r", "n">>, "Return")
         [] starting_char = "s" -> check_keyword(text, start, current, 1, 4, <<"u", "p", "e", "r">>, "Super")
         [] starting_char = "t" -> t_keyword(text, start, current)
         [] starting_char = "v" -> check_keyword(text, start, current, 1, 2, <<"a", "r">>, "Var")
         [] starting_char = "w" -> check_keyword(text, start, current, 1, 4, <<"h", "i", "l", "e">>, "While")
         [] OTHER -> "Identifier"

\* Scanner::make_token: the type and the lexeme source[start..start + length]
make_token(text, start, current, ty) == Token(ty, Slice(text, start, current))

\* the reserved words of the language
ReservedWords ==
    { <<"a", "n", "d">>, <<"o", "r">>, <<"c", "l", "a", "s", "s">>, <<"i", "f">>,
      <<"e", "l", "s", "e">>, <<"f", "a", "l", "s", "e">>, <<"f", "o", "r">>,
      <<"f", "u", "n">>, <<"t", "r", "u", "e">>, <<"n", "i", "l">>,
      <<"p", "r", "i", "n", "t">>, <<"r", "e", "t", "u", "r", "n">>,
      <<"s", "u", "p", "e", "r">>, <<"t", "h", "i", "s">>, <<"v", "a", "r">>,
      <<"w", "h", "i", "l", "e">> }

\* the scanned lexemes: the reserved words, their beginnings, the words that begin
\* with one or with an underscore, the words that differ from one in a single
\* character, and every word of up to three of the characters a d f i n o r u
ShortWords ==
    LET cs == {"a", "d", "f", "i", "n", "o", "r", "u"}
    IN { <<c>> : c \in cs } \cup { <<c, d>> : c \in cs, d \in cs }
       \cup { <<c, d, e>> : c \in cs, d \in cs, e \in cs }

Lexemes ==
    ReservedWords \cup ShortWords
    \cup UNION { { SubSeq(w, 1, n) : n \in 1..Len(w) } : w \in ReservedWords }
    \cup { w \o <<c>> : w \in ReservedWords, c \in {"s", "_", "1", "e"} }
    \cup { <<"_">> \o w : w \in ReservedWords }
    \cup UNION { { [w EXCEPT ![i] = c] : i \in 2..Len(w), c \in {"e", "T", "0"} } :
                  w \in ReservedWords }
    \cup { <<"F", "o", "r">>, <<"T", "r", "u", "e">>, <<"_">>, <<"f", "1">>, <<"t", "_">> }

\* what follows a lexeme in the source: the end of the source, or a character that
\* cannot be part of a name
Terminators == { <<>>, <<";">>, <<" ">> }

\* scan_token at the first character of a line of source that begins with an
\* identifier-shaped lexeme (line holds its characters): identifier() consumes the lexeme and the token is made
\* with its identifier_type
scan_token(text) ==
    /\ cstatus = "declaration"
    /\ previous.ty = "None"
    /\ LET start == 0
           current == identifier(text, start)
       IN previous' = make_token(text, start, current, identifier_type(text, start, current))
    /\ line' = text
    /\ UNCHANGED <<stack, frames, objects, heap, globals, status, err, inputs, source,
                   function_type, locals, scope_depth, emitted, constants, enclosing,
                   global, cstatus, cerr>>

ScanNext == \E w \in Lexemes, t \in Terminators : scan_token(w \o t)

ScanSpec == Init /\ [][ScanNext]_vars

-----------------------------------------------------------------------------
(* Properties of the host *)

\* the step is a round of the REPL that reads an input
ReadsInput == inputs' = inputs + 1

\* the inputs of a buffer that do not compile
FailingLines(buffer) == {i \in 1..Len(buffer) : DeclarationError(buffer[i]) # ""}

\* C21: compilation stops at the first error, and when the source of a round
\* fails to compile nothing of it is executed: the value stack, the frames,
\* the globals and the object list are what they were before the round.
C21_CompileErrorAborts ==
    [][(ReadsInput /\ FailingLines(line') # {})
          => /\ \E i \in FailingLines(line') :
                   /\ \A j \in FailingLines(line') : i <= j
                   /\ cerr' = DeclarationError(line'[i])
             /\ status' = "idle"
             /\ stack' = stack
             /\ frames' = frames
             /\ globals' = globals
             /\ objects' = objects
             /\ heap' = heap]_vars

\* `var 1;` was read after an input that defined the global f: it failed to
\* compile and f is still defined
C21_Witness ==
    /\ inputs = 2
    /\ line = <<Prog("badvar", 0, 0)>>
    /\ cerr = "Expected variable name"
    /\ status = "idle"
    /\ globals[<<"f">>] # Absent

\* C22: the source compiled at a prompt is the one line read at that prompt:
\* the line buffer is empty before every read, also after an input that
\* failed to compile.
C22_OneLinePerPrompt ==
    [][ReadsInput => (line = <<>> /\ line' = <<source'>>)]_vars

-----------------------------------------------------------------------------
(* Properties of function declarations *)

\* the step is the end of a function declaration: its CompilerState is popped
EndsFunction == Len(enclosing') < Len(enclosing)

\* the step is the call statement compiled at the top level
CompilesCall ==
    /\ enclosing = <<>>
    /\ enclosing' = <<>>
    /\ Len(emitted') = Len(emitted) + 3
    /\ emitted'[Len(emitted')].op = OpPop

\* C23: a top-level function declaration adds to the enclosing chunk exactly
\* CONSTANT k, DEFINE_GLOBAL n, with n the index of the name (in the pool
\* before the body was compiled) and k the index of the function value,
\* both in the enclosing pool; the body's code and constants are in the
\* function's own chunk only; a call statement that follows is emitted into
\* the enclosing chunk as GET_GLOBAL <new name index>, CALL 0, POP.
C23_FunctionDeclaration ==
    [][/\ EndsFunction
          => LET outer == enclosing[Len(enclosing)]
                 k == emitted'[Len(emitted')- 1].slot
                 n == emitted'[Len(emitted')].slot
             IN /\ Len(emitted') = Len(outer.emitted) + 2
                /\ SubSeq(emitted', 1, Len(outer.emitted)) = outer.emitted
                /\ emitted'[Len(emitted') - 1].op = OpConstant
                /\ emitted'[Len(emitted')].op = OpDefineGlobal
                /\ n + 1 <= Len(outer.constants)
                /\ constants'[n + 1] = LitString(emitted'[Len(emitted')].name)
                /\ k + 1 = Len(constants')
                /\ Len(constants') = Len(outer.constants) + 1
                /\ SubSeq(constants', 1, Len(outer.constants)) = outer.constants
                /\ constants'[k + 1].t = "function"
                /\ constants'[k + 1].name = emitted'[Len(emitted')].name
                /\ constants'[k + 1].code =
                       emitted \o <<Instruction(OpNil, -1, <<>>),
                                    Instruction(OpReturn, -1, <<>>)>>
                /\ constants'[k + 1].constants = constants
                /\ enclosing' = <<>>
       /\ (enclosing # <<>> /\ ~EndsFunction) => enclosing' = enclosing
       /\ CompilesCall
          => /\ SubSeq(emitted', 1, Len(emitted)) = emitted
             /\ emitted'[Len(emitted) + 1].op = OpGetGlobal
             /\ emitted'[Len(emitted) + 1].slot = Len(constants)
             /\ constants' = Append(constants, LitString(emitted'[Len(emitted) + 1].name))
             /\ emitted'[Len(emitted) + 2] = Instruction(OpCall, 0, <<>>)]_vars

\* `b; fun a(b) { a; } a();`: the name is constant 1, the function constant 2
\* and the name read by the call constant 3 of the script's chunk; the
\* function's chunk has the constant of its body
C23_Witness ==
    /\ enclosing = <<>>
    /\ Len(emitted) = 6
    /\ emitted[2] = Instruction(OpConstant, 2, <<>>)
    /\ emitted[3] = Instruction(OpDefineGlobal, 1, <<"a">>)
    /\ emitted[4] = Instruction(OpGetGlobal, 3, <<"a">>)
    /\ emitted[5] = Instruction(OpCall, 0, <<>>)
    /\ emitted[6].op = OpPop
    /\ constants[3].arity = 1
    /\ constants[3].constants = <<LitString(<<"a">>)>>
    /\ Len(constants[3].code) = 3

-----------------------------------------------------------------------------
(* Properties of the scanner *)

\* the token type named after a reserved word
KeywordType(word) ==
    CASE word = <<"a", "n", "d">> -> "And"
      [] word = <<"o", "r">> -> "Or"
      [] word = <<"c", "l", "a", "s", "s">> -> "Class"
      [] word = <<"i", "f">> -> "If"
      [] word = <<"e", "l", "s", "e">> -> "Else"
      [] word = <<"f", "a", "l", "s", "e">> -> "False"
      [] word = <<"f", "o", "r">> -> "For"
      [] word = <<"f", "u", "n">> -> "Fun"
      [] word = <<"t", "r", "u", "e">> -> "True"
      [] word = <<"n", "i", "l">> -> "Nil"
      [] word = <<"p", "r", "i", "n", "t">> -> "Print"
      [] word = <<"r", "e", "t", "u", "r", "n">> -> "Return"
      [] word = <<"s", "u", "p", "e", "r">> -> "Super"
      [] word = <<"t", "h", "i", "s">> -> "This"
      [] word = <<"v", "a", "r">> -> "Var"
      [] word = <<"w", "h", "i", "l", "e">> -> "While"
      [] OTHER -> "Identifier"

Scans == previous' # previous

-----------------------------------------------------------------------------
(* Properties of scopes *)

EndsScope ==
    /\ scope_depth' = scope_depth - 1
    /\ previous'.ty = "RightBrace"
    /\ enclosing' = enclosing

\* the locals of a list that are declared deeper than depth
DeeperThan(ls, depth) == {i \in 1..Len(ls) : ls[i].depth > depth}

\* C29: end_scope decrements scope_depth by one, removes exactly the locals whose
\* depth is greater than the new scope_depth and emits exactly one POP for each
\* of them and nothing else; afterwards no remaining local is deeper than
\* scope_depth, and the locals of the enclosing scopes are the same as before, in
\* the same order.
C29_EndScope ==
    [][EndsScope =>
        LET removed == DeeperThan(locals, scope_depth')
        IN /\ scope_depth' = scope_depth - 1
           /\ locals' = SelectSeq(locals, LAMBDA l : l.depth <= scope_depth')
           /\ Len(locals') = Len(locals) - Cardinality(removed)
           /\ locals' = SubSeq(locals, 1, Len(locals'))
           /\ emitted' = emitted \o Rep(Cardinality(removed), Instruction(OpPop, -1, <<>>))
           /\ DeeperThan(locals', scope_depth') = {}]_vars

\* an inner scope with two locals was closed inside a scope with one local: two
\* POPs were emitted and the local of the enclosing scope is left
C29_Witness ==
    /\ previous.ty = "RightBrace"
    /\ scope_depth = 1
    /\ Len(locals) = 1 /\ locals[1].depth = 1
    /\ Len(emitted) >= 2
    /\ emitted[Len(emitted)].op = OpPop
    /\ emitted[Len(emitted) - 1].op = OpPop
    /\ \A i \in 1..Len(emitted) : emitted[i].op = OpPop => i >= Len(emitted) - 1

-----------------------------------------------------------------------------
(* Properties of the stack trace *)

\* a step of run() that ends in construct_runtime_error
BuildsTrace == status = "running" /\ frames # <<>> /\ frames' = <<>>

\* C30: a runtime error raised while k frames are active has a trace of k
\* entries, innermost frame first and the top-level script last; the entry of a
\* frame is the line at index ip - 1 of its chunk, where ip is the frame's ip at
\* that moment: for the executing frame a byte of the instruction that failed, for
\* every caller the operand of its CALL; 1 <= ip <= length of the code holds for
\* every frame, so no lookup is out of range and the error is returned, and the
\* frames are cleared only after the trace was built from them.
C30_StackTrace ==
    [][BuildsTrace =>
        LET k == Len(frames)
            code(i) == as_function_ref(heap, frames[k + 1 - i].function).code
            ip(i) == frames[k + 1 - i].ip_offset
        IN /\ status' # "panic"
           /\ Len(err'.lines) = k
           /\ Len(err'.trace) = k
           /\ \A i \in 1..k :
                /\ err'.trace[i] = as_function_ref(heap, frames[k + 1 - i].function).name
                /\ err'.lines[i] \in 1..Len(code(i))
                /\ err'.lines[i] = ChunkLines(code(i))[err'.lines[i]]
           /\ err'.lines[1] - 1 \in ip(1)..(ip(1) + OperandBytes(opcode))
           /\ \A i \in 2..k :
                /\ err'.lines[i] = ChunkLines(code(i))[(ip(i) - 1) + 1]
                /\ code(i)[ip(i) - 1] = OpCall
           /\ err'.trace[k] = ""]_vars

\* a call with the wrong number of arguments, made by the innermost of
\* FRAMES_MAX frames at offset 11 of f: the trace starts with the CALL's operand in
\* f, goes on with the recursive CALL of each caller and ends with the CALL of the
\* script
C30_Witness ==
    /\ status = "error"
    /\ frames = <<>>
    /\ err.msg = "Expected {arity} arguments but got {arg_count}."
    /\ Len(err.lines) = FRAMES_MAX
    /\ err.lines[1] = 13 /\ err.trace[1] = "f"
    /\ err.lines[2] = 27 /\ err.trace[2] = "f"
    /\ err.lines[FRAMES_MAX] = 14 /\ err.trace[FRAMES_MAX] = ""

-----------------------------------------------------------------------------
(* Properties of local slots *)

\* GET_LOCAL or SET_LOCAL is about to execute in a program whose locals all
\* have the value SlotValue(index in the compiler's list)
AccessesLocal ==
    /\ status = "running"
    /\ opcode \in {OpGetLocal, OpSetLocal}
    /\ source.kind = "slots"

\* C25: when GET_LOCAL s or SET_LOCAL s executes, base + s is an index of the
\* value stack and that slot holds the value of the local the compiler numbered
\* s: GET_LOCAL pushes that value, SET_LOCAL overwrites that slot and pushes
\* nothing; in a function frame the parameters are the slots 0..arity-1 above the
\* callee, and all this still holds in a frame after a call made inside it has
\* returned.
C25_LocalSlots ==
    [][AccessesLocal =>
        LET s == ByteAt(1)
            index == current_frame.starting_offset + s
        IN /\ index < Len(stack)
           /\ stack[index + 1] = SlotValue(s)
           /\ opcode = OpGetLocal => stack' = Append(stack, SlotValue(s))
           /\ opcode = OpSetLocal =>
                /\ Len(stack') = Len(stack)
                /\ stack'[index + 1] = stack[Len(stack)]]_vars

-----------------------------------------------------------------------------
(* Properties of control flow *)

StatementKinds == {"if", "longif", "while", "longwhile", "for"}
LogicalKinds == {"and", "or"}

\* the code of the script of the running program
ScriptCode == FunctionsOf(source)[1].code

\* where the construct of a program starts and ends in the script's code: the
\* declarations before it take 4 bytes each, the script ends with NIL, RETURN,
\* and the value of a logical expression is defined as a global (2 bytes more)
ConstructStart ==
    CASE source.kind \in {"if", "while", "longwhile"} -> 4
      [] source.kind \in {"longif", "for"} -> 0
      [] source.kind \in LogicalKinds -> 8
ConstructEnd ==
    IF source.kind \in LogicalKinds THEN Len(ScriptCode) - 4 ELSE Len(ScriptCode) - 2

\* the script is about to execute the instruction at offset at
ScriptAt(at) ==
    /\ status = "running"
    /\ Len(frames) = 1
    /\ current_frame.ip_offset = at

\* C26: on every path through the code of an if (with or without else), a
\* while, a for, an `and` or an `or`, the POPs balance the JUMP_IF_FALSE that
\* leaves the condition on the stack: the construct starts with only the script
\* value on the stack (every time a loop comes back to its start as well), never
\* goes below that, and at its end a statement has left the height unchanged and
\* a logical expression has left exactly one value more, whether or not the jump
\* was taken.
C26_StackBalance ==
    (source.kind \in StatementKinds \cup LogicalKinds /\ status = "running")
        => /\ Len(stack) >= 1
           /\ ScriptAt(ConstructStart) => Len(stack) = 1
           /\ ScriptAt(ConstructEnd) =>
                Len(stack) = (IF source.kind \in LogicalKinds THEN 2 ELSE 1)

\* `var x = 0; if (false) x = 1; else x = 2;` at the end of the if: the jump was
\* taken, the else branch has run and only the script value is on the stack
C26_Witness ==
    /\ source = Prog("if", 2, 1)
    /\ ScriptAt(ConstructEnd)
    /\ globals[<<"x">>] = Number(2)
    /\ Len(stack) = 1

\* a jump instruction at offset at of the construct whose target is the offset
\* target, both counted from the start of the construct
JumpTo(at, target) == [at |-> at, target |-> target]

\* the jumps of the statements and where the compiler aims them: the end of the
\* code at the moment of patch_jump for a forward jump, loop_start for a LOOP
IfJumps(cond, then_branch, else_branch) ==
    { JumpTo(cond, cond + 3 + 1 + then_branch + 3),
      JumpTo(cond + 3 + 1 + then_branch,
             cond + 3 + 1 + then_branch + 3 + 1 + else_branch) }
WhileJumps(cond, body) ==
    { JumpTo(cond, cond + 3 + 1 + body + 3),
      JumpTo(cond + 3 + 1 + body, 0) }
ForJumps(init, cond, step, body) ==
    LET increment_start == init + cond + 3 + 1 + 3
        at_body == increment_start + step + 1 + 3
    IN { JumpTo(init + cond, at_body + body + 3),
         JumpTo(init + cond + 3 + 1, at_body),
         JumpTo(increment_start + step + 1, init),
         JumpTo(at_body + body, increment_start) }
AndJumps(lhs, rhs) == { JumpTo(lhs, lhs + 3 + 1 + rhs) }
OrJumps(lhs, rhs) ==
    { JumpTo(lhs, lhs + 3 + 3), JumpTo(lhs + 3, lhs + 3 + 3 + 1 + rhs) }

\* the jumps of the construct of the running program, by the lengths of its parts
ConstructJumps ==
    CASE source.kind = "if" ->
             IfJumps(Len(OperandCode(source.n, 2)), 5, IF source.m = 1 THEN 5 ELSE 0)
      [] source.kind = "longif" -> IfJumps(1, 2 * LongBody, 0)
      [] source.kind = "while" -> WhileJumps(5, 8)
      [] source.kind = "longwhile" -> WhileJumps(5, 8 + 2 * LongBody)
      [] source.kind = "for" -> ForJumps(2, 5, 7, 3)
      [] source.kind = "and" -> AndJumps(Len(OperandCode(source.n, 5)), 4)
      [] source.kind = "or" -> OrJumps(Len(OperandCode(source.n, 5)), 4)

\* the script is about to execute a jump instruction of the construct
AtJump ==
    /\ source.kind \in StatementKinds \cup LogicalKinds
    /\ status = "running"
    /\ Len(frames) = 1
    /\ opcode \in {OpJumpIfFalse, OpJump, OpLoop}

\* C27: every jump operand is the distance to the target as the VM decodes it.
\* When a JUMP_IF_FALSE whose condition is falsey, a JUMP or a LOOP executes, the
\* next instruction fetched is the one the compiler aimed at: the byte that was
\* the end of the code when patch_jump ran for a forward jump, loop_start for a
\* LOOP; a JUMP_IF_FALSE whose condition is truthy continues after its operand.
C27_JumpTargets ==
    [][AtJump =>
        LET at == current_frame.ip_offset - ConstructStart
            aimed == {j \in ConstructJumps : j.at = at}
            taken == opcode = OpJumpIfFalse => is_falsey(stack[Len(stack)])
        IN /\ Cardinality(aimed) = 1
           /\ status' = "running"
           /\ Len(frames') = 1
           /\ \A j \in aimed :
                frames'[1].ip_offset =
                    IF taken THEN ConstructStart + j.target
                    ELSE current_frame.ip_offset + 3
           /\ opcode = OpLoop => frames'[1].ip_offset < current_frame.ip_offset
           /\ opcode # OpLoop => frames'[1].ip_offset > current_frame.ip_offset]_vars

\* the while loop whose body is longer than 255 bytes is back at its condition
\* after one iteration: the LOOP went back over the body
C27_Witness ==
    /\ source = Prog("longwhile", 1, 0)
    /\ ScriptAt(ConstructStart)
    /\ globals[<<"i">>] = Number(1)

\* the chunk of the function a frame executes
FrameCode(frame) == as_function_ref(heap, frame.function).code

\* C28: at every instruction fetch the ip of the current frame is smaller than
\* the length of its chunk's code and is the offset of an opcode, never of an
\* operand byte, and every caller's ip, where its frame resumes, is one too; every
\* chunk of the program ends with NIL, RETURN.
C28_InstructionBoundaries ==
    status = "running" =>
        /\ \A i \in 1..Len(frames) :
             /\ frames[i].ip_offset < Len(FrameCode(frames[i]))
             /\ frames[i].ip_offset \in InstructionStarts(FrameCode(frames[i]))
        /\ \A k \in 1..Len(FunctionsOf(source)) :
             LET code == FunctionsOf(source)[k].code
             IN /\ Len(code) >= 2
                /\ code[Len(code) - 1] = OpNil
                /\ code[Len(code)] = OpReturn
                /\ Len(code) - 2 \in InstructionStarts(code)

\* the for loop at the start of its step, where the LOOP after the body lands,
\* with the loop variable and the script value on the stack
C28_Witness ==
    /\ source = Prog("for", 2, 0)
    /\ ScriptAt(14)
    /\ ScriptCode[15] = OpGetLocal
    /\ stack[Len(stack)] = Number(0)
    /\ Len(stack) = 2

====
